---- MODULE Spec2Model ----
(***************************************************************************)
(* Case-processing pipeline of the frontline support system:               *)
(*   agents_system.py  FrontlineAgentSystem and its five agents            *)
(*   app.py            submit_case, process_case_async, ConnectionManager, *)
(*                     websocket_endpoint                                  *)
(*   database_models.py  the tables the agents read and write              *)
(*   demo_data_setup.py  create_demo_data                                  *)
(*                                                                         *)
(* Text is a sequence of one-character strings, so that Python's substring *)
(* test `word in description.lower()` is computed, not assumed.            *)
(***************************************************************************)
EXTENDS Integers, Sequences, FiniteSets, TLC

\* ------------------------------------------------------------------ bounds
MaxCases == 2
MaxRuns == 2
MaxSockets == 2
\* cases submitted in a behaviour of Spec, where observers are modelled too
MaxObservedCases == 1
\* words in a description given to the triage rules
MaxWords == 2
\* services created over POST /api/services/ in a behaviour
MaxCreated == 1

\* ------------------------------------------------------------ Python values
\* Optional[int] None is 0 (ids start at 1 and `if service_id:` treats both as
\* false); Optional[str] None is the string "None"; Optional[dict] None is the
\* empty set and a present dict d is {d}.
NoneId == 0
NoneStr == "None"

\* ----------------------------------------------------------------- text
\* the cased characters of the text TLC can hold (Latin-1): A-Z and the
\* accented capitals U+00C0..U+00DE, with their str.lower() images
UpperCase == <<"A","B","C","D","E","F","G","H","I","J","K","L","M",
               "N","O","P","Q","R","S","T","U","V","W","X","Y","Z",
               "À","Á","Â","Ã","Ä","Å","Æ","Ç","È","É",
               "Ê","Ë","Ì","Í","Î","Ï","Ð","Ñ","Ò","Ó",
               "Ô","Õ","Ö","Ø","Ù","Ú","Û","Ü","Ý","Þ" >>
LowerCase == <<"a","b","c","d","e","f","g","h","i","j","k","l","m",
               "n","o","p","q","r","s","t","u","v","w","x","y","z",
               "à","á","â","ã","ä","å","æ","ç","è","é",
               "ê","ë","ì","í","î","ï","ð","ñ","ò","ó",
               "ô","õ","ö","ø","ù","ú","û","ü","ý","þ" >>

\* the str.lower() image of each cased character
LowerTable ==
    [c \in {UpperCase[i] : i \in 1..Len(UpperCase)} |->
        LowerCase[CHOOSE i \in 1..Len(UpperCase) : UpperCase[i] = c]]

\* str.lower() on one character
LowerChar(c) == IF c \in DOMAIN LowerTable THEN LowerTable[c] ELSE c

\* str.lower()
Lower(s) == [i \in 1..Len(s) |-> LowerChar(s[i])]

\* Python `word in text` for strings: word occurs as a contiguous substring
Contains(text, word) ==
    \E i \in 0..(Len(text) - Len(word)) :
        \A j \in 1..Len(word) : text[i + j] = word[j]

\* any(word in text for word in words)
AnyIn(text, words) == \E k \in 1..Len(words) : Contains(text, words[k])

\* ------------------------------------------------------- triage keyword rules
CriticalWords == <<
    <<"e","m","e","r","g","e","n","c","y">>,
    <<"u","r","g","e","n","t">>,
    <<"c","r","i","t","i","c","a","l">>,
    <<"s","e","v","e","r","e">>,
    <<"l","i","f","e","-","t","h","r","e","a","t","e","n","i","n","g">> >>
HighWords == <<
    <<"p","a","i","n">>,
    <<"i","n","j","u","r","y">>,
    <<"b","l","e","e","d","i","n","g">>,
    <<"f","e","v","e","r">> >>
\* the medium keywords with the check-up keyword also spelt without its hyphen
MediumWords_unhyphenated == <<
    <<"a","p","p","o","i","n","t","m","e","n","t">>,
    <<"c","o","n","s","u","l","t","a","t","i","o","n">>,
    <<"c","h","e","c","k","-","u","p">>,
    <<"c","h","e","c","k","u","p">> >>
MediumWords == <<
    <<"a","p","p","o","i","n","t","m","e","n","t">>,
    <<"c","o","n","s","u","l","t","a","t","i","o","n">>,
    <<"c","h","e","c","k","-","u","p">> >>
MedicalWords == <<
    <<"m","e","d","i","c","a","l">>,
    <<"d","o","c","t","o","r">>,
    <<"h","o","s","p","i","t","a","l">>,
    <<"h","e","a","l","t","h">>,
    <<"p","a","i","n">>,
    <<"i","n","j","u","r","y">> >>
EmergencyWords == <<
    <<"e","m","e","r","g","e","n","c","y">>,
    <<"p","o","l","i","c","e">>,
    <<"f","i","r","e">>,
    <<"a","m","b","u","l","a","n","c","e">> >>
SocialWords == <<
    <<"s","o","c","i","a","l">>,
    <<"w","e","l","f","a","r","e">>,
    <<"b","e","n","e","f","i","t","s">>,
    <<"h","o","u","s","i","n","g">> >>

\* the urgency rules with the high rule tested before the critical rule
_determine_urgency_highFirst(description) ==
    LET description_lower == Lower(description) IN
    IF AnyIn(description_lower, HighWords) THEN "high"
    ELSE IF AnyIn(description_lower, CriticalWords) THEN "critical"
    ELSE IF AnyIn(description_lower, MediumWords) THEN "medium"
    ELSE "low"

\* TriageAgent._determine_urgency
_determine_urgency(description) ==
    LET description_lower == Lower(description) IN
    IF AnyIn(description_lower, CriticalWords) THEN "critical"
    ELSE IF AnyIn(description_lower, HighWords) THEN "high"
    ELSE IF AnyIn(description_lower, MediumWords) THEN "medium"
    ELSE "low"

\* the service-type rules with the emergency rule tested before the medical rule
_determine_service_type_emergencyFirst(description) ==
    LET description_lower == Lower(description) IN
    IF AnyIn(description_lower, EmergencyWords) THEN "emergency"
    ELSE IF AnyIn(description_lower, MedicalWords) THEN "medical"
    ELSE IF AnyIn(description_lower, SocialWords) THEN "social"
    ELSE "administrative"

\* TriageAgent._determine_service_type
_determine_service_type(description) ==
    LET description_lower == Lower(description) IN
    IF AnyIn(description_lower, MedicalWords) THEN "medical"
    ELSE IF AnyIn(description_lower, EmergencyWords) THEN "emergency"
    ELSE IF AnyIn(description_lower, SocialWords) THEN "social"
    ELSE "administrative"

\* a duration estimate that also looks at the length of the text
_estimate_duration_byText(description, urgency) ==
    IF urgency = "critical" \/ Len(description) > 12 THEN 60
    ELSE IF urgency = "high" THEN 45
    ELSE IF urgency = "medium" THEN 30
    ELSE 15

\* TriageAgent._estimate_duration
_estimate_duration(description, urgency) ==
    IF urgency = "critical" THEN 60
    ELSE IF urgency = "high" THEN 45
    ELSE IF urgency = "medium" THEN 30
    ELSE 15

\* a slot search that serves emergency-flagged services within the hour
_find_next_slot_byService(service, urgency) ==
    IF urgency = "critical" \/ service.is_emergency THEN 1
    ELSE IF urgency = "high" THEN 4
    ELSE IF urgency = "medium" THEN 24
    ELSE 72

\* the offline emergency keywords with a high keyword of the online rules added
emergency_keywords_withPain == <<
    <<"e","m","e","r","g","e","n","c","y">>,
    <<"u","r","g","e","n","t">>,
    <<"c","r","i","t","i","c","a","l">>,
    <<"s","e","v","e","r","e">>,
    <<"p","a","i","n">> >>

\* OfflineModeHandler._simple_triage: emergency_keywords
emergency_keywords == <<
    <<"e","m","e","r","g","e","n","c","y">>,
    <<"u","r","g","e","n","t">>,
    <<"c","r","i","t","i","c","a","l">>,
    <<"s","e","v","e","r","e">> >>

\* the offline triage done with the rules of the online triage
_simple_triage_fullRules(description) == _determine_urgency(description)

\* OfflineModeHandler._simple_triage
_simple_triage(description) ==
    IF AnyIn(Lower(description), emergency_keywords) THEN "high" ELSE "medium"

\* OfflineModeHandler._simple_service_match: the words of its test
OfflineMedicalWords == <<
    <<"m","e","d","i","c","a","l">>,
    <<"h","e","a","l","t","h">>,
    <<"d","o","c","t","o","r">> >>

\* OfflineModeHandler._simple_service_match
_simple_service_match(description) ==
    IF AnyIn(Lower(description), OfflineMedicalWords) THEN "medical" ELSE "general"

\* BookingAgent._find_next_slot, as the offset from utcnow() in hours
_find_next_slot(service, urgency) ==
    IF urgency = "critical" THEN 1
    ELSE IF urgency = "high" THEN 4
    ELSE IF urgency = "medium" THEN 24
    ELSE 72

\* ------------------------------------------------------------------ inputs
Runs == 1..MaxRuns
Sockets == 1..MaxSockets
CaseIds == 1..MaxCases

\* descriptions a citizen may submit
Descriptions == {
    <<"S","e","v","e","r","e"," ","p","a","i","n">>,
    <<"f","e","v","e","r">>,
    <<"c","h","e","c","k","-","u","p">> }

\* words of the descriptions given to the triage rules: keywords of every
\* rule, in lower and upper case, and words that are no keyword
Vocabulary == {
    <<"e","m","e","r","g","e","n","c","y">>,
    <<"U","R","G","E","N","T">>,
    <<"s","e","v","e","r","e">>,
    <<"l","i","f","e","-","t","h","r","e","a","t","e","n","i","n","g">>,
    <<"p","a","i","n">>,
    <<"f","e","v","e","r">>,
    <<"B","l","e","e","d","i","n","g">>,
    <<"a","p","p","o","i","n","t","m","e","n","t">>,
    <<"c","h","e","c","k","-","u","p">>,
    <<"p","a","s","s","p","o","r","t">>,
    <<"c","h","e","c","k","u","p">>,
    <<"d","o","c","t","o","r">>,
    <<"h","e","a","l","t","h">>,
    <<"p","o","l","i","c","e">>,
    <<"f","i","r","e">>,
    <<"w","e","l","f","a","r","e">>,
    <<"h","o","u","s","i","n","g">> }

\* " ".join(words)
RECURSIVE JoinWords(_)
JoinWords(words) ==
    IF words = <<>> THEN <<>>
    ELSE IF Len(words) = 1 THEN words[1]
    ELSE words[1] \o <<" ">> \o JoinWords(Tail(words))

\* the descriptions of at most MaxWords words
ProbeTexts ==
    {JoinWords(words) : words \in UNION {[1..k -> Vocabulary] : k \in 0..MaxWords}}

\* words of the descriptions posted to /api/cases/offline
OfflineVocabulary == {
    <<"e","m","e","r","g","e","n","c","y">>,
    <<"U","R","G","E","N","T">>,
    <<"c","r","i","t","i","c","a","l">>,
    <<"s","e","v","e","r","e">>,
    <<"m","e","d","i","c","a","l">>,
    <<"h","e","a","l","t","h">>,
    <<"D","o","c","t","o","r">>,
    <<"p","a","i","n">>,
    <<"p","a","s","s","p","o","r","t">> }

\* case_data["description"] of the offline requests: at most MaxWords words
OfflineTexts ==
    {JoinWords(words) : words \in UNION {[1..k -> OfflineVocabulary] : k \in 0..MaxWords}}

\* descriptions of every urgency tier: medical ones, a low social one and a
\* critical social one (the seeded tables have no emergency-flagged social
\* service)
TierTexts == {
    <<"s","e","v","e","r","e"," ","p","a","i","n">>,
    <<"p","a","i","n">>,
    <<"d","o","c","t","o","r"," ","a","p","p","o","i","n","t","m","e","n","t">>,
    <<"w","e","l","f","a","r","e">>,
    <<"s","e","v","e","r","e"," ","w","e","l","f","a","r","e">> }

\* create_demo_data.sample_cases: the description of each sample case and the
\* urgency and service type recorded with it
sample_cases == <<
    [description |->
        <<"I","'","m"," ","e","x","p","e","r","i","e","n","c","i","n","g",
          " ","s","e","v","e","r","e"," ","c","h","e","s","t"," ","p","a",
          "i","n"," ","t","h","a","t"," ","s","t","a","r","t","e","d"," ",
          "a","n"," ","h","o","u","r"," ","a","g","o",","," ","a","l","o",
          "n","g"," ","w","i","t","h"," ","d","i","f","f","i","c","u","l",
          "t","y"," ","b","r","e","a","t","h","i","n","g"," ","a","n","d",
          " ","s","w","e","a","t","i","n","g","."," ","T","h","i","s"," ",
          "f","e","e","l","s"," ","l","i","k","e"," ","i","t"," ","c","o",
          "u","l","d"," ","b","e"," ","s","e","r","i","o","u","s"," ","a",
          "n","d"," ","I"," ","n","e","e","d"," ","i","m","m","e","d","i",
          "a","t","e"," ","m","e","d","i","c","a","l"," ","a","t","t","e",
          "n","t","i","o","n","." >>,
     expected_urgency |-> "critical",
     expected_service |-> "medical"],
    [description |->
        <<"I"," ","w","a","s"," ","i","n","v","o","l","v","e","d"," ","i",
          "n"," ","a"," ","m","i","n","o","r"," ","c","a","r"," ","a","c",
          "c","i","d","e","n","t"," ","a","t"," ","t","h","e"," ","i","n",
          "t","e","r","s","e","c","t","i","o","n"," ","o","f"," ","M","a",
          "i","n"," ","S","t"," ","a","n","d"," ","O","a","k"," ","A","v",
          "e","."," ","I"," ","h","a","v","e"," ","s","o","m","e"," ","c",
          "u","t","s"," ","a","n","d"," ","b","r","u","i","s","e","s"," ",
          "b","u","t"," ","n","o","t","h","i","n","g"," ","s","e","e","m",
          "s"," ","b","r","o","k","e","n","."," ","N","e","e","d"," ","t",
          "o"," ","f","i","l","e"," ","a"," ","p","o","l","i","c","e"," ",
          "r","e","p","o","r","t"," ","a","n","d"," ","g","e","t"," ","m",
          "e","d","i","c","a","l"," ","c","l","e","a","r","a","n","c","e",
          "." >>,
     expected_urgency |-> "high",
     expected_service |-> "emergency"],
    [description |->
        <<"I"," ","n","e","e","d"," ","t","o"," ","s","c","h","e","d","u",
          "l","e"," ","m","y"," ","a","n","n","u","a","l"," ","h","e","a",
          "l","t","h"," ","c","h","e","c","k","u","p","."," ","I","t","'",
          "s"," ","b","e","e","n"," ","o","v","e","r"," ","a"," ","y","e",
          "a","r"," ","s","i","n","c","e"," ","m","y"," ","l","a","s","t",
          " ","v","i","s","i","t"," ","a","n","d"," ","I"," ","w","a","n",
          "t"," ","t","o"," ","m","a","k","e"," ","s","u","r","e"," ","e",
          "v","e","r","y","t","h","i","n","g"," ","i","s"," ","o","k","a",
          "y","."," ","P","r","e","f","e","r","a","b","l","y"," ","n","e",
          "x","t"," ","w","e","e","k"," ","i","f"," ","p","o","s","s","i",
          "b","l","e","." >>,
     expected_urgency |-> "low",
     expected_service |-> "medical"],
    [description |->
        <<"I"," ","r","e","c","e","n","t","l","y"," ","l","o","s","t"," ",
          "m","y"," ","j","o","b"," ","d","u","e"," ","t","o"," ","c","o",
          "m","p","a","n","y"," ","d","o","w","n","s","i","z","i","n","g",
          " ","a","n","d"," ","I","'","m"," ","s","t","r","u","g","g","l",
          "i","n","g"," ","t","o"," ","m","a","k","e"," ","r","e","n","t",
          " ","p","a","y","m","e","n","t","s","."," ","I"," ","n","e","e",
          "d"," ","i","n","f","o","r","m","a","t","i","o","n"," ","a","b",
          "o","u","t"," ","e","m","e","r","g","e","n","c","y"," ","h","o",
          "u","s","i","n","g"," ","a","s","s","i","s","t","a","n","c","e",
          " ","p","r","o","g","r","a","m","s"," ","a","n","d"," ","h","o",
          "w"," ","t","o"," ","a","p","p","l","y","." >>,
     expected_urgency |-> "medium",
     expected_service |-> "social"],
    [description |->
        <<"M","y"," ","d","r","i","v","e","r","'","s"," ","l","i","c","e",
          "n","s","e"," ","e","x","p","i","r","e","s"," ","n","e","x","t",
          " ","m","o","n","t","h"," ","a","n","d"," ","I"," ","n","e","e",
          "d"," ","t","o"," ","r","e","n","e","w"," ","i","t","."," ","I",
          "'","d"," ","l","i","k","e"," ","t","o"," ","s","c","h","e","d",
          "u","l","e"," ","a","n"," ","a","p","p","o","i","n","t","m","e",
          "n","t"," ","a","t"," ","t","h","e"," ","D","M","V"," ","o","f",
          "f","i","c","e"," ","a","n","d"," ","f","i","n","d"," ","o","u",
          "t"," ","w","h","a","t"," ","d","o","c","u","m","e","n","t","s",
          " ","I"," ","n","e","e","d"," ","t","o"," ","b","r","i","n","g",
          "." >>,
     expected_urgency |-> "low",
     expected_service |-> "administrative"],
    [description |->
        <<"I","'","m"," ","i","n"," ","a","n"," ","u","n","s","a","f","e",
          " ","d","o","m","e","s","t","i","c"," ","s","i","t","u","a","t",
          "i","o","n"," ","a","n","d"," ","n","e","e","d"," ","i","m","m",
          "e","d","i","a","t","e"," ","h","e","l","p"," ","a","n","d"," ",
          "g","u","i","d","a","n","c","e","."," ","I","'","m"," ","s","c",
          "a","r","e","d"," ","a","n","d"," ","d","o","n","'","t"," ","k",
          "n","o","w"," ","w","h","e","r","e"," ","t","o"," ","t","u","r",
          "n","."," ","P","l","e","a","s","e"," ","h","e","l","p"," ","m",
          "e"," ","f","i","n","d"," ","r","e","s","o","u","r","c","e","s",
          " ","a","n","d"," ","s","a","f","e","t","y"," ","o","p","t","i",
          "o","n","s","." >>,
     expected_urgency |-> "critical",
     expected_service |-> "emergency"],
    [description |->
        <<"I","'","v","e"," ","h","a","d"," ","a"," ","h","i","g","h"," ",
          "f","e","v","e","r"," ","(","1","0","2","°","F",")"," ","f","o",
          "r"," ","3"," ","d","a","y","s"," ","a","l","o","n","g"," ","w",
          "i","t","h"," ","a"," ","p","e","r","s","i","s","t","e","n","t",
          " ","c","o","u","g","h"," ","a","n","d"," ","b","o","d","y"," ",
          "a","c","h","e","s","."," ","I","'","m"," ","c","o","n","c","e",
          "r","n","e","d"," ","i","t"," ","m","i","g","h","t"," ","b","e",
          " ","s","o","m","e","t","h","i","n","g"," ","s","e","r","i","o",
          "u","s"," ","a","n","d"," ","n","e","e","d"," ","t","o"," ","s",
          "e","e"," ","a"," ","d","o","c","t","o","r"," ","s","o","o","n",
          "." >>,
     expected_urgency |-> "high",
     expected_service |-> "medical"],
    [description |->
        <<"I"," ","b","e","l","i","e","v","e"," ","m","y"," ","p","r","o",
          "p","e","r","t","y"," ","t","a","x"," ","a","s","s","e","s","s",
          "m","e","n","t"," ","i","s"," ","t","o","o"," ","h","i","g","h",
          " ","c","o","m","p","a","r","e","d"," ","t","o"," ","s","i","m",
          "i","l","a","r"," ","p","r","o","p","e","r","t","i","e","s"," ",
          "i","n"," ","m","y"," ","n","e","i","g","h","b","o","r","h","o",
          "o","d","."," ","I"," ","n","e","e","d"," ","t","o"," ","f","i",
          "l","e"," ","a","n"," ","a","p","p","e","a","l"," ","a","n","d",
          " ","u","n","d","e","r","s","t","a","n","d"," ","t","h","e"," ",
          "p","r","o","c","e","s","s","." >>,
     expected_urgency |-> "low",
     expected_service |-> "administrative"],
    [description |->
        <<"I"," ","a","t","e"," ","a","t"," ","a"," ","r","e","s","t","a",
          "u","r","a","n","t"," ","y","e","s","t","e","r","d","a","y"," ",
          "a","n","d"," ","n","o","w"," ","I","'","m"," ","e","x","p","e",
          "r","i","e","n","c","i","n","g"," ","s","e","v","e","r","e"," ",
          "n","a","u","s","e","a",","," ","v","o","m","i","t","i","n","g",
          ","," ","a","n","d"," ","d","i","a","r","r","h","e","a","."," ",
          "I","'","m"," ","g","e","t","t","i","n","g"," ","d","e","h","y",
          "d","r","a","t","e","d"," ","a","n","d"," ","f","e","e","l"," ",
          "v","e","r","y"," ","w","e","a","k","." >>,
     expected_urgency |-> "high",
     expected_service |-> "medical"],
    [description |->
        <<"I"," ","w","a","s"," ","r","e","c","e","n","t","l","y"," ","l",
          "a","i","d"," ","o","f","f"," ","f","r","o","m"," ","m","y"," ",
          "j","o","b"," ","a","n","d"," ","n","e","e","d"," ","t","o"," ",
          "a","p","p","l","y"," ","f","o","r"," ","u","n","e","m","p","l",
          "o","y","m","e","n","t"," ","b","e","n","e","f","i","t","s",".",
          " ","I"," ","n","e","e","d"," ","h","e","l","p"," ","u","n","d",
          "e","r","s","t","a","n","d","i","n","g"," ","t","h","e"," ","p",
          "r","o","c","e","s","s"," ","a","n","d"," ","w","h","a","t"," ",
          "d","o","c","u","m","e","n","t","a","t","i","o","n"," ","i","s",
          " ","r","e","q","u","i","r","e","d","." >>,
     expected_urgency |-> "medium",
     expected_service |-> "social"] >>

\* the descriptions of the sample cases
SampleDescriptions == {sample_cases[i].description : i \in 1..Len(sample_cases)}

\* startup_event: the services it inserts when the table is empty
StartupServices == <<
    [id |-> 1, name |-> "General Hospital Emergency", type |-> "medical", is_emergency |-> TRUE],
    [id |-> 2, name |-> "Community Health Clinic", type |-> "medical", is_emergency |-> FALSE],
    [id |-> 3, name |-> "Emergency Response Unit", type |-> "emergency", is_emergency |-> TRUE],
    [id |-> 4, name |-> "Social Services Office", type |-> "social", is_emergency |-> FALSE],
    [id |-> 5, name |-> "City Administration", type |-> "administrative", is_emergency |-> FALSE] >>

\* create_demo_data: the services it inserts after it has emptied the tables
DemoServices == <<
    [id |-> 1, name |-> "City General Hospital - Emergency", type |-> "medical", is_emergency |-> TRUE],
    [id |-> 2, name |-> "Community Health Clinic", type |-> "medical", is_emergency |-> FALSE],
    [id |-> 3, name |-> "Specialized Medical Center", type |-> "medical", is_emergency |-> FALSE],
    [id |-> 4, name |-> "Emergency Response Unit", type |-> "emergency", is_emergency |-> TRUE],
    [id |-> 5, name |-> "Police Department", type |-> "emergency", is_emergency |-> TRUE],
    [id |-> 6, name |-> "Social Services Department", type |-> "social", is_emergency |-> FALSE],
    [id |-> 7, name |-> "Housing Authority", type |-> "social", is_emergency |-> FALSE],
    [id |-> 8, name |-> "City Administration Office", type |-> "administrative", is_emergency |-> FALSE],
    [id |-> 9, name |-> "Department of Motor Vehicles", type |-> "administrative", is_emergency |-> FALSE],
    [id |-> 10, name |-> "Tax Assessment Office", type |-> "administrative", is_emergency |-> FALSE] >>

\* the services table when the application starts: seeded by startup_event, or
\* left by create_demo_data (startup_event inserts nothing into a table that
\* has rows)
Catalogs == {StartupServices, DemoServices}

\* service_data of the requests to POST /api/services/
ServiceData == {
    [name |-> "Crisis Shelter", type |-> "social", is_emergency |-> TRUE],
    [name |-> "Walk-in Clinic", type |-> "medical", is_emergency |-> FALSE] }

\* ------------------------------------------------------------------- state
VARIABLES
    services,           \* table services: rows in ascending id order
    cases,              \* table cases: row i has id i
    case_updates,       \* table case_updates, grouped by case_id, in insertion order
    appointments,       \* table appointments, in insertion order
    system_metrics,     \* table system_metrics, in insertion order
    run,                \* one record per process_case_async invocation
    active_connections, \* ConnectionManager.active_connections
    case_subscribers,   \* ConnectionManager.case_subscribers (<<>> doubles as a missing key)
    ws_state,           \* per WebSocket: "new", "open", "closed" (peer gone), "gone" (endpoint returned)
    ws_case,            \* per WebSocket: the case_id of its /ws/{case_id} path, 0 before it connects
    received,           \* per WebSocket: the events send_text delivered to it
    delivery_failed,    \* the WebSockets for which a send_text inside send_case_update raised
    offline_exchange    \* the request and response of POST /api/cases/offline, if one was made

vars == <<services, cases, case_updates, appointments, system_metrics, run,
          active_connections, case_subscribers, ws_state, ws_case, received,
          delivery_failed, offline_exchange>>

dbVars == <<services, cases, case_updates, appointments, system_metrics>>
wsVars == <<active_connections, case_subscribers, ws_state, ws_case, received, delivery_failed>>

\* --------------------------------------------------------- sequence helpers
\* list.remove(x): drops the first occurrence of x
RemoveFirst(seq, x) ==
    IF \E i \in 1..Len(seq) : seq[i] = x
    THEN LET k == CHOOSE i \in 1..Len(seq) :
                      seq[i] = x /\ \A j \in 1..(i - 1) : seq[j] # x
         IN [i \in 1..(Len(seq) - 1) |-> IF i < k THEN seq[i] ELSE seq[i + 1]]
    ELSE seq

InSeq(seq, x) == \E i \in 1..Len(seq) : seq[i] = x

\* dict[key] = value on an insertion-ordered dict kept as a sequence of entries
DictSet(d, key, value) ==
    IF \E i \in 1..Len(d) : d[i].key = key
    THEN [i \in 1..Len(d) |-> IF d[i].key = key THEN [key |-> key, value |-> value] ELSE d[i]]
    ELSE Append(d, [key |-> key, value |-> value])

DictHas(d, key) == \E i \in 1..Len(d) : d[i].key = key
DictGet(d, key) == d[CHOOSE i \in 1..Len(d) : d[i].key = key].value
DictKeys(d) == [i \in 1..Len(d) |-> d[i].key]

\* the query without the is_emergency filter
SelectRows_anyFlag(table, type, emergencyOnly) ==
    SelectSeq(table, LAMBDA row : row.type = type)

\* query(...).filter(pred).all().  The query has no ORDER BY: the rows come in
\* the order of SQLite's scan of the table, which is the rowid order, and the
\* rowid of a services row is its id; the table is kept in that order.
RECURSIVE SelectRows(_, _, _)
SelectRows(table, type, emergencyOnly) ==
    IF table = <<>> THEN <<>>
    ELSE LET row == Head(table)
             rest == SelectRows(Tail(table), type, emergencyOnly)
         IN IF row.type = type /\ (emergencyOnly => row.is_emergency)
            THEN <<row>> \o rest ELSE rest

\* query(Service).filter(Service.id == service_id).first(), as a set of 0 or 1 row
ServiceById(table, service_id) ==
    {table[i] : i \in {j \in 1..Len(table) : table[j].id = service_id}}

\* query(Case).filter(Case.id == case_id).first(), as a set of 0 or 1 row
CaseById(table, case_id) ==
    IF case_id \in 1..Len(table) THEN {table[case_id]} ELSE {}

\* ------------------------------------------------------------- the workflow
\* _create_workflow: entry point and edges of the compiled graph; "END" is END
EntryPoint == "triage"
\* the edges with booking and guidance exchanged
NextNode_swapped(node) ==
    CASE node = "triage" -> "booking"
      [] node = "booking" -> "guidance"
      [] node = "guidance" -> "followup"
      [] node = "followup" -> "equity"
      [] node = "equity" -> "END"

NextNode(node) ==
    CASE node = "triage" -> "guidance"
      [] node = "guidance" -> "booking"
      [] node = "booking" -> "followup"
      [] node = "followup" -> "equity"
      [] node = "equity" -> "END"

Nodes == {"triage", "guidance", "booking", "followup", "equity"}

\* AgentState before process_case has built initial_state
BlankState ==
    [case_id |-> 0, case_description |-> <<>>, urgency_level |-> "",
     assigned_service_id |-> NoneId, appointment_details |-> {},
     messages |-> <<>>, agent_outputs |-> <<>>, current_status |-> "",
     error_message |-> NoneStr, offline_mode |-> FALSE]

\* process_case: initial_state
\* initial_state that takes the assignment over from the case row
InitialState_keepsAssignment(case_id, case, offline_mode) ==
    [case_id |-> case_id, case_description |-> case.description,
     urgency_level |-> "", assigned_service_id |-> case.assigned_service_id,
     appointment_details |-> {}, messages |-> <<"human">>,
     agent_outputs |-> <<>>, current_status |-> case.status,
     error_message |-> NoneStr, offline_mode |-> offline_mode]

InitialState(case_id, case, offline_mode) ==
    [case_id |-> case_id, case_description |-> case.description,
     urgency_level |-> "", assigned_service_id |-> NoneId,
     appointment_details |-> {}, messages |-> <<"human">>,
     agent_outputs |-> <<>>, current_status |-> case.status,
     error_message |-> NoneStr, offline_mode |-> offline_mode]

\* process_case: the three return values
NotFoundResult == [error |-> "Case not found"]

SuccessResult(case_id, final_state) ==
    [success |-> TRUE, case_id |-> case_id,
     final_status |-> final_state.current_status,
     agent_outputs |-> final_state.agent_outputs,
     appointment_details |-> final_state.appointment_details,
     messages |-> final_state.messages]

FailureResult(case_id, e) ==
    [success |-> FALSE, error |-> e, case_id |-> case_id]

\* str(e) of the exceptions the handlers can raise
KeyErrorTriage == "'triage'"
\* str(e) of a fault that does not come from the handler's own logic, such as
\* an OperationalError of the database session
UnexpectedFault == "database error"
TypeErrorNone == "'NoneType' object is not subscriptable"

\* f"No available services for {service_type}"
NoServiceMessage(service_type) ==
    CASE service_type = "medical" -> "No available services for medical"
      [] service_type = "emergency" -> "No available services for emergency"
      [] service_type = "social" -> "No available services for social"
      [] service_type = "administrative" -> "No available services for administrative"

\* one row of case_updates
Update(update_type, agent_type) == [update_type |-> update_type, agent_type |-> agent_type]

\* ------------------------------------------------- a run of process_case_async
\* pc: "idle" not started, "load" entering process_case, a node name while the
\* graph is about to run that node, "send" inside send_case_update, "done"
\* returned, "crashed" an exception left process_case_async, "returned"
\* process_case has returned to a script.
\* events: the event types handed to send_case_update, in order.
\* idx: position of the for loop over case_subscribers[case_id].
\* started: the nodes whose handler has been entered, in order.
\* escaped: how many send_case_update calls were left by an exception.
\* unreached: subscribers after the failing one when a call was left that way.
\* fault: str(e) of the exception a handler raised into ainvoke, "None" if none.
\* session_case: the Case object held by the run's own Session with the column
\* values it was last loaded with, {} before the first load and after a
\* commit has expired it.
\* ack: the response submit_case returned when it scheduled the run, if it did.
\* caller: who awaits process_case: "process_case_async", which publishes the
\* result, or "script" for create_demo_data and test_agent_workflow, which
\* print it (pc "returned").
IdleRun ==
    [pc |-> "idle", case_id |-> 0, state |-> BlankState, result |-> {},
     events |-> <<>>, idx |-> 0, started |-> <<>>, escaped |-> 0,
     unreached |-> {}, fault |-> NoneStr, session_case |-> {}, ack |-> {},
     caller |-> "process_case_async"]

\* a run record for a process_case call made by demo_data_setup.py
ScriptRun(case_id) ==
    [IdleRun EXCEPT !.pc = "load", !.case_id = case_id, !.caller = "script"]

\* process_case returned `result`: process_case_async calls send_case_update
\* with the case_processed event
\* process_case that starts over instead of returning a result without success
Returned_retries(rec, result) ==
    IF "success" \in DOMAIN result
    THEN [rec EXCEPT !.pc = "send", !.result = {result},
                     !.events = <<"case_processed">>, !.idx = 1]
    ELSE [rec EXCEPT !.pc = "load"]

Returned(rec, result) ==
    IF rec.caller = "script"
    THEN [rec EXCEPT !.pc = "returned", !.result = {result}]
    ELSE [rec EXCEPT !.pc = "send", !.result = {result},
                     !.events = <<"case_processed">>, !.idx = 1]

\* a node handler returned `st`: the graph follows the edge out of `node`, and
\* at END ainvoke returns and process_case returns the success dict
NodeReturned(rec, node, st) ==
    LET entered == [rec EXCEPT !.state = st, !.started = Append(@, node)] IN
    IF NextNode(node) = "END"
    THEN Returned(entered, SuccessResult(rec.case_id, st))
    ELSE [entered EXCEPT !.pc = NextNode(node)]

\* a node handler raised and nothing caught it: the exception leaves process_case
NodeRaised_propagates(rec, node, e) ==
    [rec EXCEPT !.started = Append(@, node), !.fault = e, !.pc = "crashed"]

\* an exception left process_case: the except of process_case_async calls
\* send_case_update with the case_error event
Escaped(rec, e) ==
    [rec EXCEPT !.pc = "send", !.fault = e, !.events = <<"case_error">>, !.idx = 1]

\* a node handler raised: ainvoke raises, process_case's except returns the
\* failure dict
NodeRaised(rec, node, e) ==
    Returned([rec EXCEPT !.started = Append(@, node), !.fault = e],
             FailureResult(rec.case_id, e))

\* ------------------------------------------------ what each handler leaves in state
\* analyze_case, case row missing
TriageError(st) == [st EXCEPT !.error_message = "Case not found"]

\* analyze_case, "Update state"
TriagedState(st, urgency, service_type, estimated_duration) ==
    [st EXCEPT !.urgency_level = urgency,
               !.current_status = "triaged",
               !.agent_outputs = DictSet(@, "triage",
                   [urgency |-> urgency, service_type |-> service_type,
                    estimated_duration |-> estimated_duration]),
               !.messages = Append(@, "triage completed")]

\* match_service, no service passed the filter
GuidanceError(st, service_type) ==
    [st EXCEPT !.error_message = NoServiceMessage(service_type)]

\* match_service, "Update state"
AssignedState(st, selected_service) ==
    [st EXCEPT !.assigned_service_id = selected_service.id,
               !.current_status = "assigned",
               !.agent_outputs = DictSet(@, "guidance",
                   [service_name |-> selected_service.name]),
               !.messages = Append(@, "case assigned")]

\* book_appointment, service row missing
\* the early return of book_appointment, leaving an output entry behind
BookingError_recordsOutput(st) ==
    [st EXCEPT !.error_message = "Service not found",
               !.agent_outputs = DictSet(@, "booking", [error |-> "Service not found"])]

BookingError(st) == [st EXCEPT !.error_message = "Service not found"]

\* book_appointment's state update without the status assignment
BookedState_keepsStatus(st, service, scheduled_time, estimated_duration) ==
    LET details == [service_name |-> service.name,
                    scheduled_time |-> scheduled_time,
                    duration |-> estimated_duration] IN
    [st EXCEPT !.appointment_details = {details},
               !.agent_outputs = DictSet(@, "booking", details),
               !.messages = Append(@, "appointment booked")]

\* book_appointment, "Update state"
BookedState(st, service, scheduled_time, estimated_duration) ==
    LET details == [service_name |-> service.name,
                    scheduled_time |-> scheduled_time,
                    duration |-> estimated_duration] IN
    [st EXCEPT !.appointment_details = {details},
               !.current_status = "scheduled",
               !.agent_outputs = DictSet(@, "booking", details),
               !.messages = Append(@, "appointment booked")]

\* send_confirmation, "Update state"
ConfirmedState(st) ==
    [st EXCEPT !.agent_outputs = DictSet(@, "followup", [confirmation_sent |-> TRUE]),
               !.messages = Append(@, "confirmation sent")]

\* track_metrics, state["agent_outputs"]["equity"] = ...
TrackedState(st) ==
    [st EXCEPT !.agent_outputs = DictSet(@, "equity", [metrics_updated |-> TRUE])]

\* appointment_record.confirmation_sent = True on the first row of the case
\* the marking written as a toggle of the flag
MarkConfirmed_toggles(table, case_id) ==
    IF \E i \in 1..Len(table) : table[i].case_id = case_id
    THEN LET k == CHOOSE i \in 1..Len(table) :
                      table[i].case_id = case_id
                      /\ \A j \in 1..(i - 1) : table[j].case_id # case_id
         IN [table EXCEPT ![k].confirmation_sent = ~@]
    ELSE table

MarkConfirmed(table, case_id) ==
    IF \E i \in 1..Len(table) : table[i].case_id = case_id
    THEN LET k == CHOOSE i \in 1..Len(table) :
                      table[i].case_id = case_id
                      /\ \A j \in 1..(i - 1) : table[j].case_id # case_id
         IN [table EXCEPT ![k].confirmation_sent = TRUE]
    ELSE table

\* The column `date` of system_metrics is kept as the class of the stored text
\* relative to the current UTC day:
\*   "earlier"   a day before;
\*   "midnight"  'D 00:00:00', the server default CURRENT_TIMESTAMP (whole
\*               seconds, no fraction) taken in the first second of today;
\*   "today"     'D hh:mm:ss', the server default taken later today;
\*   "utcnow"    'D hh:mm:ss.ffffff', a datetime.utcnow() of today, which
\*               create_demo_data stores.
\* track_metrics filters `date >= today` with today = utcnow().date(), which is
\* bound as 'D 00:00:00.000000': the comparison is one of texts, and
\* 'D 00:00:00' is smaller, so a "midnight" row does not pass on its own day.
DatedToday(row) == row.date \in {"today", "utcnow"}

\* the dates the server default can give a row inserted now: a row that has
\* it and passes the filter shows that the first second of the day is over
InsertDates(table) ==
    IF \E i \in 1..Len(table) : table[i].date = "today"
    THEN {"today"} ELSE {"midnight", "today"}

\* track_metrics: increment the first row of the service that passes the
\* filter, or add one with 1 and the server default as its date
UpsertMetric(table, service_id, date) ==
    IF \E i \in 1..Len(table) : table[i].service_id = service_id /\ DatedToday(table[i])
    THEN LET k == CHOOSE i \in 1..Len(table) :
                      /\ table[i].service_id = service_id /\ DatedToday(table[i])
                      /\ \A j \in 1..(i - 1) :
                            ~(table[j].service_id = service_id /\ DatedToday(table[j]))
         IN [table EXCEPT ![k].demand_count = @ + 1]
    ELSE Append(table, [service_id |-> service_id, date |-> date, demand_count |-> 1])

\* query(Case).filter(Case.id == case_id).first() inside a run: the Session
\* hands out the object it already holds, with the values it was loaded with,
\* and reads the row only when it holds none or the object is expired
SessionCase(rec, table) ==
    IF rec.session_case # {} THEN CHOOSE c \in rec.session_case : TRUE
    ELSE table[rec.case_id]

\* commit() after the attribute assignments `changes` on an object loaded as
\* `loaded`: the UPDATE sets the columns whose assigned value differs from the
\* loaded one, the other columns of the row stay as they are in the table
FlushCase(row, loaded, changes) ==
    [c \in DOMAIN row |->
        IF c \in DOMAIN changes /\ changes[c] # loaded[c] THEN changes[c] ELSE row[c]]

\* --------------------------------------------------------------------- Init
Init ==
    /\ services = StartupServices
    /\ cases = <<>>
    /\ case_updates = [c \in CaseIds |-> <<>>]
    /\ appointments = <<>>
    /\ system_metrics = <<>>
    /\ run = [r \in Runs |-> IdleRun]
    /\ active_connections = <<>>
    /\ case_subscribers = [c \in CaseIds |-> <<>>]
    /\ ws_state = [w \in Sockets |-> "new"]
    /\ ws_case = [w \in Sockets |-> 0]
    /\ received = [w \in Sockets |-> {}]
    /\ delivery_failed = {}
    /\ offline_exchange = {}

\* create_demo_data after "Created sample cases": every table was emptied, the
\* ten services and the ten sample cases are stored, nothing is processed yet
InitDemo ==
    /\ services = DemoServices
    /\ cases = [i \in 1..Len(sample_cases) |->
                  [description |-> sample_cases[i].description, urgency |-> "medium",
                   status |-> "submitted", assigned_service_id |-> NoneId,
                   estimated_duration |-> 0]]
    /\ case_updates = [c \in 1..Len(sample_cases) |-> <<>>]
    /\ appointments = <<>>
    /\ system_metrics = <<>>
    /\ run = [r \in Runs |-> IdleRun]
    /\ active_connections = <<>>
    /\ case_subscribers = [c \in 1..Len(sample_cases) |-> <<>>]
    /\ ws_state = [w \in Sockets |-> "new"]
    /\ ws_case = [w \in Sockets |-> 0]
    /\ received = [w \in Sockets |-> {}]
    /\ delivery_failed = {}
    /\ offline_exchange = {}

\* the number of cases the tables held when the application started: none, or
\* the sample cases
StoredCases(table) == IF Len(table) >= Len(sample_cases) THEN Len(sample_cases) ELSE 0

\* background tasks take the lowest free run record
FreeRun(r) == run[r].pc = "idle" /\ \A q \in 1..(r - 1) : run[q].pc # "idle"

\* ------------------------------------------------------------------ actions
\* submit_case: the response body
Acknowledgment(case_id) ==
    [case_id |-> case_id, message |-> "Case submitted successfully",
     status |-> "processing"]

\* submit_case that awaits process_case itself before it answers
submit_case_blocking(r, description) ==
    /\ FreeRun(r)
    /\ Len(cases) < StoredCases(cases) + MaxCases
    /\ LET row == [description |-> description, urgency |-> "medium",
                   status |-> "submitted", assigned_service_id |-> NoneId,
                   estimated_duration |-> 0]
           case_id == Len(cases) + 1 IN
       /\ cases' = Append(cases, row)
       /\ run' = [run EXCEPT ![r] =
             [IdleRun EXCEPT !.pc = EntryPoint, !.case_id = case_id,
                             !.state = InitialState(case_id, row, FALSE),
                             !.session_case = {row},
                             !.ack = {Acknowledgment(case_id)}]]
    /\ UNCHANGED <<services, case_updates, appointments, system_metrics>>
    /\ UNCHANGED wsVars
    /\ UNCHANGED offline_exchange

\* submit_case: insert the case row, then schedule process_case_async(db_case.id)
\* as a background task and answer; the task starts after the response
submit_case(r, description) ==
    /\ FreeRun(r)
    /\ Len(cases) < StoredCases(cases) + MaxCases
    /\ cases' = Append(cases,
          [description |-> description, urgency |-> "medium",
           status |-> "submitted", assigned_service_id |-> NoneId,
           estimated_duration |-> 0])
    /\ run' = [run EXCEPT ![r] = [IdleRun EXCEPT !.pc = "load", !.case_id = Len(cases) + 1,
                                                 !.ack = {Acknowledgment(Len(cases) + 1)}]]
    /\ UNCHANGED <<services, case_updates, appointments, system_metrics>>
    /\ UNCHANGED wsVars
    /\ UNCHANGED offline_exchange

\* process_case_async(case_id, ...) called for any case id, present or not
process_case_async(r, case_id) ==
    /\ FreeRun(r)
    /\ run' = [run EXCEPT ![r] = [IdleRun EXCEPT !.pc = "load", !.case_id = case_id]]
    /\ UNCHANGED dbVars
    /\ UNCHANGED wsVars
    /\ UNCHANGED offline_exchange

\* process_case without the early return: the graph is entered for a missing row
process_case_noCheck(r) ==
    /\ run[r].pc = "load"
    /\ LET case_id == run[r].case_id
           case == CaseById(cases, case_id)
           row == IF case = {} THEN [description |-> <<>>, status |-> "submitted"]
                  ELSE CHOOSE c \in case : TRUE IN
       run' = [run EXCEPT ![r] =
          [@ EXCEPT !.pc = EntryPoint, !.state = InitialState(case_id, row, FALSE),
                    !.session_case = case]]
    /\ UNCHANGED dbVars
    /\ UNCHANGED wsVars
    /\ UNCHANGED offline_exchange

\* process_case up to ainvoke: load the case, return at once if it is absent
process_case(r) ==
    /\ run[r].pc = "load"
    /\ LET case_id == run[r].case_id
           case == CaseById(cases, case_id) IN
       run' = [run EXCEPT ![r] =
          IF case = {}
          THEN Returned(@, NotFoundResult)
          ELSE [@ EXCEPT !.pc = EntryPoint,
                         !.state = InitialState(case_id, CHOOSE c \in case : TRUE, FALSE),
                         !.session_case = case]]
    /\ UNCHANGED dbVars
    /\ UNCHANGED wsVars
    /\ UNCHANGED offline_exchange

\* TriageAgent.analyze_case
analyze_case(r) ==
    /\ run[r].pc = "triage"
    /\ LET st == run[r].state
           case_id == st.case_id
           case == CaseById(cases, case_id)
           urgency == _determine_urgency(st.case_description)
           service_type == _determine_service_type(st.case_description)
           estimated_duration == _estimate_duration(st.case_description, urgency) IN
       IF case = {}
       THEN /\ run' = [run EXCEPT ![r] = NodeReturned(@, "triage", TriageError(st))]
            /\ UNCHANGED <<cases, case_updates>>
       ELSE \* after the commit, case.triage_notes reloads the expired object
            /\ cases' = [cases EXCEPT ![case_id] =
                  FlushCase(@, SessionCase(run[r], cases),
                            [urgency |-> urgency, status |-> "triaged",
                             estimated_duration |-> estimated_duration])]
            /\ case_updates' = [case_updates EXCEPT ![case_id] = Append(@, Update("triage", "triage"))]
            /\ run' = [run EXCEPT ![r] =
                  [NodeReturned(@, "triage",
                       TriagedState(st, urgency, service_type, estimated_duration))
                   EXCEPT !.session_case = {cases'[case_id]}]]
    /\ UNCHANGED <<services, appointments, system_metrics>>
    /\ UNCHANGED wsVars
    /\ UNCHANGED offline_exchange

\* services[0] on the list query.all() returned
FirstRow(rows) == rows[1]

\* a Guidance that takes any service of the type when none is emergency-flagged
match_service_fallsBack(r) ==
    /\ run[r].pc = "guidance"
    /\ LET st == run[r].state
           case_id == st.case_id IN
       IF ~DictHas(st.agent_outputs, "triage")
       THEN /\ run' = [run EXCEPT ![r] = NodeRaised(@, "guidance", KeyErrorTriage)]
            /\ UNCHANGED <<cases, case_updates>>
       ELSE LET urgency == st.urgency_level
                service_type == DictGet(st.agent_outputs, "triage").service_type
                flagged == SelectRows(services, service_type, urgency \in {"critical", "high"})
                found == IF flagged = <<>>
                         THEN SelectRows(services, service_type, FALSE)
                         ELSE flagged IN
            IF found = <<>>
            THEN /\ run' = [run EXCEPT ![r] = NodeReturned(@, "guidance", GuidanceError(st, service_type))]
                 /\ UNCHANGED <<cases, case_updates>>
            ELSE LET selected_service == FirstRow(found) IN
                 /\ cases' = [cases EXCEPT ![case_id] =
                       FlushCase(@, SessionCase(run[r], cases),
                                 [assigned_service_id |-> selected_service.id,
                                  status |-> "assigned"])]
                 /\ case_updates' = [case_updates EXCEPT ![case_id] = Append(@, Update("assignment", "guidance"))]
                 /\ run' = [run EXCEPT ![r] =
                       [NodeReturned(@, "guidance", AssignedState(st, selected_service))
                        EXCEPT !.session_case = {}]]
    /\ UNCHANGED <<services, appointments, system_metrics>>
    /\ UNCHANGED wsVars
    /\ UNCHANGED offline_exchange

\* GuidanceAgent.match_service
match_service(r) ==
    /\ run[r].pc = "guidance"
    /\ LET st == run[r].state
           case_id == st.case_id IN
       IF ~DictHas(st.agent_outputs, "triage")
       THEN /\ run' = [run EXCEPT ![r] = NodeRaised(@, "guidance", KeyErrorTriage)]
            /\ UNCHANGED <<cases, case_updates>>
       ELSE LET urgency == st.urgency_level
                service_type == DictGet(st.agent_outputs, "triage").service_type
                found == SelectRows(services, service_type, urgency \in {"critical", "high"}) IN
            IF found = <<>>
            THEN /\ run' = [run EXCEPT ![r] = NodeReturned(@, "guidance", GuidanceError(st, service_type))]
                 /\ UNCHANGED <<cases, case_updates>>
            ELSE LET selected_service == FirstRow(found) IN
                 /\ cases' = [cases EXCEPT ![case_id] =
                       FlushCase(@, SessionCase(run[r], cases),
                                 [assigned_service_id |-> selected_service.id,
                                  status |-> "assigned"])]
                 /\ case_updates' = [case_updates EXCEPT ![case_id] = Append(@, Update("assignment", "guidance"))]
                 /\ run' = [run EXCEPT ![r] =
                       [NodeReturned(@, "guidance", AssignedState(st, selected_service))
                        EXCEPT !.session_case = {}]]
    /\ UNCHANGED <<services, appointments, system_metrics>>
    /\ UNCHANGED wsVars
    /\ UNCHANGED offline_exchange

\* the Appointment row built without duration_minutes: the column default
NewAppointment_defaultDuration(case_id, service_id, scheduled_time, estimated_duration) ==
    [case_id |-> case_id, service_id |-> service_id,
     scheduled_time |-> scheduled_time,
     duration_minutes |-> 30,
     confirmation_sent |-> FALSE]

\* book_appointment: the Appointment row it adds
NewAppointment(case_id, service_id, scheduled_time, estimated_duration) ==
    [case_id |-> case_id, service_id |-> service_id,
     scheduled_time |-> scheduled_time,
     duration_minutes |-> estimated_duration,
     confirmation_sent |-> FALSE]

\* BookingAgent.book_appointment
book_appointment(r) ==
    /\ run[r].pc = "booking"
    /\ LET st == run[r].state
           case_id == st.case_id
           service_id == st.assigned_service_id
           urgency == st.urgency_level
           service == ServiceById(services, service_id) IN
       IF ~DictHas(st.agent_outputs, "triage")
       THEN /\ run' = [run EXCEPT ![r] = NodeRaised(@, "booking", KeyErrorTriage)]
            /\ UNCHANGED <<cases, case_updates, appointments>>
       ELSE LET estimated_duration == DictGet(st.agent_outputs, "triage").estimated_duration IN
            IF service = {}
            THEN /\ run' = [run EXCEPT ![r] = NodeReturned(@, "booking", BookingError(st))]
                 /\ UNCHANGED <<cases, case_updates, appointments>>
            ELSE LET svc == CHOOSE x \in service : TRUE
                     scheduled_time == _find_next_slot(svc, urgency) IN
                 /\ appointments' = Append(appointments,
                       NewAppointment(case_id, service_id, scheduled_time, estimated_duration))
                 /\ cases' = [cases EXCEPT ![case_id] =
                       FlushCase(@, SessionCase(run[r], cases), [status |-> "scheduled"])]
                 /\ case_updates' = [case_updates EXCEPT ![case_id] = Append(@, Update("booking", "booking"))]
                 /\ run' = [run EXCEPT ![r] =
                       [NodeReturned(@, "booking",
                            BookedState(st, svc, scheduled_time, estimated_duration))
                        EXCEPT !.session_case = {}]]
    /\ UNCHANGED <<services, system_metrics>>
    /\ UNCHANGED wsVars
    /\ UNCHANGED offline_exchange

\* send_confirmation that skips the message when there is no appointment
send_confirmation_tolerant(r) ==
    /\ run[r].pc = "followup"
    /\ LET st == run[r].state
           case_id == st.case_id IN
       /\ appointments' = MarkConfirmed(appointments, case_id)
       /\ case_updates' = [case_updates EXCEPT ![case_id] = Append(@, Update("confirmation", "follow_up"))]
       /\ run' = [run EXCEPT ![r] = NodeReturned(@, "followup", ConfirmedState(st))]
    /\ UNCHANGED <<services, cases, system_metrics>>
    /\ UNCHANGED wsVars
    /\ UNCHANGED offline_exchange

\* FollowUpAgent.send_confirmation
send_confirmation(r) ==
    /\ run[r].pc = "followup"
    /\ LET st == run[r].state
           case_id == st.case_id IN
       IF st.appointment_details = {}
       THEN \* _generate_confirmation_message subscripts None
            /\ run' = [run EXCEPT ![r] = NodeRaised(@, "followup", TypeErrorNone)]
            /\ UNCHANGED <<case_updates, appointments>>
       ELSE /\ appointments' = MarkConfirmed(appointments, case_id)
            /\ case_updates' = [case_updates EXCEPT ![case_id] = Append(@, Update("confirmation", "follow_up"))]
            /\ run' = [run EXCEPT ![r] = NodeReturned(@, "followup", ConfirmedState(st))]
    /\ UNCHANGED <<services, cases, system_metrics>>
    /\ UNCHANGED wsVars
    /\ UNCHANGED offline_exchange

\* EquityOversightAgent.track_metrics
track_metrics(r) ==
    /\ run[r].pc = "equity"
    /\ LET st == run[r].state
           service_id == st.assigned_service_id IN
       /\ IF service_id # NoneId
          THEN \E date \in InsertDates(system_metrics) :
                  system_metrics' = UpsertMetric(system_metrics, service_id, date)
          ELSE system_metrics' = system_metrics
       /\ run' = [run EXCEPT ![r] = NodeReturned(@, "equity", TrackedState(st))]
    /\ UNCHANGED <<services, cases, case_updates, appointments>>
    /\ UNCHANGED wsVars
    /\ UNCHANGED offline_exchange

\* a query of process_case itself fails, before the try: the exception leaves
\* process_case, and the except of process_case_async hands case_error to
\* send_case_update
process_case_raises(r) ==
    /\ run[r].pc = "load"
    /\ run' = [run EXCEPT ![r] = Escaped(@, UnexpectedFault)]
    /\ UNCHANGED dbVars
    /\ UNCHANGED wsVars
    /\ UNCHANGED offline_exchange

\* the handler at `node` reaches a statement of its own that uses the session:
\* match_service and book_appointment subscript agent_outputs["triage"]
\* first, send_confirmation builds the message from appointment_details
\* first, track_metrics uses the session only for an assigned service
ReachesSession(st, node) ==
    CASE node = "triage" -> TRUE
      [] node \in {"guidance", "booking"} -> DictHas(st.agent_outputs, "triage")
      [] node = "followup" -> st.appointment_details # {}
      [] node = "equity" -> st.assigned_service_id # NoneId

\* any handler, entered by the graph, raises a fault of its environment with
\* nothing of its transaction committed: a query before the commit fails, or
\* the handler's first commit does
handler_raises(r) ==
    /\ run[r].pc \in Nodes
    /\ ReachesSession(run[r].state, run[r].pc)
    /\ run' = [run EXCEPT ![r] = NodeRaised(@, @.pc, UnexpectedFault)]
    /\ UNCHANGED dbVars
    /\ UNCHANGED wsVars
    /\ UNCHANGED offline_exchange

\* analyze_case raises after its commit: the SELECT that reloads the expired
\* case for case.triage_notes fails; what it committed stays
analyze_case_raises(r) ==
    /\ run[r].pc = "triage"
    /\ LET st == run[r].state
           case_id == st.case_id
           urgency == _determine_urgency(st.case_description)
           estimated_duration == _estimate_duration(st.case_description, urgency) IN
       /\ CaseById(cases, case_id) # {}
       /\ cases' = [cases EXCEPT ![case_id] =
             FlushCase(@, SessionCase(run[r], cases),
                       [urgency |-> urgency, status |-> "triaged",
                        estimated_duration |-> estimated_duration])]
       /\ case_updates' = [case_updates EXCEPT ![case_id] = Append(@, Update("triage", "triage"))]
       /\ run' = [run EXCEPT ![r] = NodeRaised(@, "triage", UnexpectedFault)]
    /\ UNCHANGED <<services, appointments, system_metrics>>
    /\ UNCHANGED wsVars
    /\ UNCHANGED offline_exchange

\* match_service raises after its commit: the SELECT that reloads the expired
\* service for selected_service.id fails; what it committed stays
match_service_raises(r) ==
    /\ run[r].pc = "guidance"
    /\ LET st == run[r].state
           case_id == st.case_id IN
       /\ DictHas(st.agent_outputs, "triage")
       /\ LET found == SelectRows(services, DictGet(st.agent_outputs, "triage").service_type,
                                  st.urgency_level \in {"critical", "high"}) IN
          /\ found # <<>>
          /\ cases' = [cases EXCEPT ![case_id] =
                FlushCase(@, SessionCase(run[r], cases),
                          [assigned_service_id |-> FirstRow(found).id,
                           status |-> "assigned"])]
       /\ case_updates' = [case_updates EXCEPT ![case_id] = Append(@, Update("assignment", "guidance"))]
       /\ run' = [run EXCEPT ![r] = NodeRaised(@, "guidance", UnexpectedFault)]
    /\ UNCHANGED <<services, appointments, system_metrics>>
    /\ UNCHANGED wsVars
    /\ UNCHANGED offline_exchange

\* book_appointment raises after its commit: the SELECT that reloads the
\* expired service for service.name fails; what it committed stays
book_appointment_raises(r) ==
    /\ run[r].pc = "booking"
    /\ LET st == run[r].state
           case_id == st.case_id
           service == ServiceById(services, st.assigned_service_id) IN
       /\ DictHas(st.agent_outputs, "triage")
       /\ service # {}
       /\ appointments' = Append(appointments,
             NewAppointment(case_id, st.assigned_service_id,
                            _find_next_slot(CHOOSE x \in service : TRUE, st.urgency_level),
                            DictGet(st.agent_outputs, "triage").estimated_duration))
       /\ cases' = [cases EXCEPT ![case_id] =
             FlushCase(@, SessionCase(run[r], cases), [status |-> "scheduled"])]
       /\ case_updates' = [case_updates EXCEPT ![case_id] = Append(@, Update("booking", "booking"))]
       /\ run' = [run EXCEPT ![r] = NodeRaised(@, "booking", UnexpectedFault)]
    /\ UNCHANGED <<services, system_metrics>>
    /\ UNCHANGED wsVars
    /\ UNCHANGED offline_exchange

\* send_confirmation raises at its second commit: the first one has stored
\* confirmation_sent, the update row is not stored
send_confirmation_raises(r) ==
    /\ run[r].pc = "followup"
    /\ run[r].state.appointment_details # {}
    /\ appointments' = MarkConfirmed(appointments, run[r].state.case_id)
    /\ run' = [run EXCEPT ![r] = NodeRaised(@, "followup", UnexpectedFault)]
    /\ UNCHANGED <<services, cases, case_updates, system_metrics>>
    /\ UNCHANGED wsVars
    /\ UNCHANGED offline_exchange

\* create_demo_data: `for i, case in enumerate(cases[:5])`
DemoProcessed == 5
\* the run record that holds the process_case call of create_demo_data
DemoRun == 1
\* the run record that holds the process_case call of test_agent_workflow
TestRun == 2

\* create_demo_data calls process_case for the next of the first five sample
\* cases, once the call before has returned
demo_process_case ==
    /\ run[DemoRun].pc \in {"idle", "returned"}
    /\ run[DemoRun].case_id < DemoProcessed
    /\ run' = [run EXCEPT ![DemoRun] = ScriptRun(run[DemoRun].case_id + 1)]
    /\ UNCHANGED dbVars
    /\ UNCHANGED wsVars
    /\ UNCHANGED offline_exchange

\* the two rows create_demo_data adds for one service: datetime.utcnow() with
\* demand 5, a day before it with demand 8
DemoMetrics(service_id) ==
    << [service_id |-> service_id, date |-> "utcnow", demand_count |-> 5],
       [service_id |-> service_id, date |-> "earlier", demand_count |-> 8] >>

RECURSIVE DemoMetricsOf(_)
DemoMetricsOf(table) ==
    IF table = <<>> THEN <<>>
    ELSE DemoMetrics(Head(table).id) \o DemoMetricsOf(Tail(table))

\* the rows of the table once the day has ended: none is dated today any more
Aged(table) == [i \in 1..Len(table) |-> [table[i] EXCEPT !.date = "earlier"]]

\* create_demo_data, "Create some system metrics", after the last call
\* returned.  Each row takes datetime.utcnow() when it is built, so the day can
\* end inside the loop, after the rows of the first k services (k = 0: it does
\* not); one commit stores them all.
demo_system_metrics ==
    /\ run[DemoRun].pc = "returned"
    /\ run[DemoRun].case_id = DemoProcessed
    /\ \E k \in 0..(Len(services) - 1) :
          system_metrics' =
             IF k = 0 THEN system_metrics \o DemoMetricsOf(services)
             ELSE Aged(system_metrics \o DemoMetricsOf(SubSeq(services, 1, k)))
                     \o DemoMetricsOf(SubSeq(services, k + 1, Len(services)))
    /\ run' = [run EXCEPT ![DemoRun].pc = "done"]
    /\ UNCHANGED <<services, cases, case_updates, appointments>>
    /\ UNCHANGED wsVars
    /\ UNCHANGED offline_exchange

\* query(Case).filter(Case.status == CaseStatus.SUBMITTED).first(): the id of
\* the first submitted case, NoneId if there is none
FirstSubmitted(table) ==
    IF \E i \in 1..Len(table) : table[i].status = "submitted"
    THEN CHOOSE i \in 1..Len(table) :
            /\ table[i].status = "submitted"
            /\ \A j \in 1..(i - 1) : table[j].status # "submitted"
    ELSE NoneId

\* test_agent_workflow, which __main__ runs after create_demo_data: one
\* process_case call, with a session of its own, on the first submitted case
test_agent_workflow ==
    /\ run[DemoRun].pc = "done"
    /\ run[TestRun].pc = "idle"
    /\ FirstSubmitted(cases) # NoneId
    /\ run' = [run EXCEPT ![TestRun] = ScriptRun(FirstSubmitted(cases))]
    /\ UNCHANGED dbVars
    /\ UNCHANGED wsVars
    /\ UNCHANGED offline_exchange

\* The tables `python demo_data_setup.py` leaves on disk: create_demo_data has
\* processed sample cases 1..5 and added its metrics rows, test_agent_workflow
\* has processed case 6.  Per case: urgency, assigned service, duration.
UsedCaseColumns == <<
    [urgency |-> "critical", assigned_service_id |-> 1, estimated_duration |-> 60],
    [urgency |-> "low", assigned_service_id |-> 1, estimated_duration |-> 15],
    [urgency |-> "low", assigned_service_id |-> 1, estimated_duration |-> 15],
    [urgency |-> "critical", assigned_service_id |-> 4, estimated_duration |-> 60],
    [urgency |-> "medium", assigned_service_id |-> 8, estimated_duration |-> 30],
    [urgency |-> "low", assigned_service_id |-> 8, estimated_duration |-> 15] >>

UsedCases ==
    [i \in 1..Len(sample_cases) |->
        IF i <= Len(UsedCaseColumns)
        THEN [description |-> sample_cases[i].description,
              urgency |-> UsedCaseColumns[i].urgency, status |-> "scheduled",
              assigned_service_id |-> UsedCaseColumns[i].assigned_service_id,
              estimated_duration |-> UsedCaseColumns[i].estimated_duration]
        ELSE [description |-> sample_cases[i].description, urgency |-> "medium",
              status |-> "submitted", assigned_service_id |-> NoneId,
              estimated_duration |-> 0]]

UsedAppointments == <<
    [case_id |-> 1, service_id |-> 1, scheduled_time |-> 1, duration_minutes |-> 60, confirmation_sent |-> TRUE],
    [case_id |-> 2, service_id |-> 1, scheduled_time |-> 72, duration_minutes |-> 15, confirmation_sent |-> TRUE],
    [case_id |-> 3, service_id |-> 1, scheduled_time |-> 72, duration_minutes |-> 15, confirmation_sent |-> TRUE],
    [case_id |-> 4, service_id |-> 4, scheduled_time |-> 1, duration_minutes |-> 60, confirmation_sent |-> TRUE],
    [case_id |-> 5, service_id |-> 8, scheduled_time |-> 24, duration_minutes |-> 30, confirmation_sent |-> TRUE],
    [case_id |-> 6, service_id |-> 8, scheduled_time |-> 72, duration_minutes |-> 15, confirmation_sent |-> TRUE] >>

\* the rows of the runs (services 1, 4 and 8), then two rows per service
UsedMetrics ==
    << [service_id |-> 1, date |-> "today", demand_count |-> 3],
       [service_id |-> 4, date |-> "today", demand_count |-> 1],
       [service_id |-> 8, date |-> "today", demand_count |-> 2] >>
    \o DemoMetricsOf(DemoServices)

\* the four update rows of a case that went through the pipeline
UsedUpdates ==
    << Update("triage", "triage"), Update("assignment", "guidance"),
       Update("booking", "booking"), Update("confirmation", "follow_up") >>

\* the case ids of a behaviour that starts on the used tables: the stored
\* cases and up to MaxCases new ones
UsedCaseIds == 1..(Len(sample_cases) + MaxCases)

\* startup_event on the database left by demo_data_setup.py: the services
\* table has rows, so it returns at once and the application serves on what
\* is there
InitUsed ==
    /\ services = DemoServices
    /\ cases = UsedCases
    /\ case_updates = [c \in UsedCaseIds |->
                         IF c <= Len(UsedCaseColumns) THEN UsedUpdates ELSE <<>>]
    /\ appointments = UsedAppointments
    /\ system_metrics = UsedMetrics
    /\ run = [r \in Runs |-> IdleRun]
    /\ active_connections = <<>>
    /\ case_subscribers = [c \in UsedCaseIds |-> <<>>]
    /\ ws_state = [w \in Sockets |-> "new"]
    /\ ws_case = [w \in Sockets |-> 0]
    /\ received = [w \in Sockets |-> {}]
    /\ delivery_failed = {}
    /\ offline_exchange = {}

\* the day ends: datetime.utcnow().date() moves on, so no row written so far
\* passes the filter `date >= today` of track_metrics any more
midnight ==
    /\ \E i \in 1..Len(system_metrics) : system_metrics[i].date # "earlier"
    /\ system_metrics' = Aged(system_metrics)
    /\ UNCHANGED <<services, cases, case_updates, appointments>>
    /\ UNCHANGED run
    /\ UNCHANGED wsVars
    /\ UNCHANGED offline_exchange

\* create_service (POST /api/services/): insert the row, the id is the next one
create_service(service_data) ==
    /\ \E seed \in Catalogs :
          /\ Len(services) >= Len(seed)
          /\ SubSeq(services, 1, Len(seed)) = seed
          /\ Len(services) < Len(seed) + MaxCreated
    /\ services' = Append(services,
          [id |-> Len(services) + 1, name |-> service_data.name,
           type |-> service_data.type, is_emergency |-> service_data.is_emergency])
    /\ UNCHANGED <<cases, case_updates, appointments, system_metrics>>
    /\ UNCHANGED run
    /\ UNCHANGED wsVars
    /\ UNCHANGED offline_exchange

\* OfflineModeHandler.process_case_offline, called by submit_case_offline
process_case_offline(description) ==
    /\ offline_exchange = {}
    /\ offline_exchange' =
          {[description |-> description,
            urgency |-> _simple_triage(description),
            recommended_service |-> _simple_service_match(description),
            message |-> "Processed in offline mode with simplified logic"]}
    /\ UNCHANGED dbVars
    /\ UNCHANGED run
    /\ UNCHANGED wsVars

\* ------------------------------------------------------- ConnectionManager
\* ConnectionManager.disconnect: touches active_connections only
disconnect(connections, websocket) ==
    IF InSeq(connections, websocket) THEN RemoveFirst(connections, websocket)
    ELSE connections

\* a subscription that lists the websocket under every case id
subscribe_to_case_everyCase(subscribers, case_id, websocket) ==
    [c \in DOMAIN subscribers |-> Append(subscribers[c], websocket)]

\* ConnectionManager.subscribe_to_case
subscribe_to_case(subscribers, case_id, websocket) ==
    [subscribers EXCEPT ![case_id] = Append(@, websocket)]

\* the message process_case_async is sending; `run` tells the runs apart
CurrentEvent(r) ==
    [type |-> run[r].events[Len(run[r].events)], case_id |-> run[r].case_id, run |-> r]

\* One turn of the for loop of send_case_update, as called by
\* process_case_async.  send_text to a WebSocket whose peer is gone raises; the
\* bare except calls the synchronous disconnect and awaits its None, which
\* raises TypeError out of send_case_update.  From the first call that lands
\* in the except of process_case_async, which calls send_case_update again
\* with case_error; from the second it leaves process_case_async.
send_case_update(r) ==
    /\ run[r].pc = "send"
    /\ LET subscribers == case_subscribers[run[r].case_id]
           idx == run[r].idx IN
       IF idx > Len(subscribers)
       THEN /\ run' = [run EXCEPT ![r].pc = "done"]
            /\ UNCHANGED <<active_connections, received, delivery_failed>>
       ELSE LET connection == subscribers[idx] IN
            IF ws_state[connection] = "open"
            THEN /\ received' = [received EXCEPT ![connection] = @ \cup {CurrentEvent(r)}]
                 /\ run' = [run EXCEPT ![r].idx = idx + 1]
                 /\ UNCHANGED <<active_connections, delivery_failed>>
            ELSE /\ active_connections' = disconnect(active_connections, connection)
                 /\ delivery_failed' = delivery_failed \cup {connection}
                 /\ run' = [run EXCEPT ![r] =
                       LET left == [@ EXCEPT !.escaped = @ + 1,
                                             !.unreached = @ \cup
                                                {subscribers[j] : j \in (idx + 1)..Len(subscribers)}] IN
                       IF @.events = <<"case_processed">>
                       THEN [left EXCEPT !.events = Append(@, "case_error"), !.idx = 1]
                       ELSE [left EXCEPT !.pc = "crashed"]]
                 /\ UNCHANGED received
    /\ UNCHANGED dbVars
    /\ UNCHANGED <<case_subscribers, ws_state, ws_case>>
    /\ UNCHANGED offline_exchange

\* an endpoint that replays to a new subscriber the last event of the runs of
\* the case that are over
websocket_endpoint_replays(websocket, case_id) ==
    /\ ws_state[websocket] = "new"
    /\ \A q \in 1..(websocket - 1) : ws_state[q] # "new"
    /\ ws_state' = [ws_state EXCEPT ![websocket] = "open"]
    /\ ws_case' = [ws_case EXCEPT ![websocket] = case_id]
    /\ active_connections' = Append(active_connections, websocket)
    /\ case_subscribers' = subscribe_to_case(case_subscribers, case_id, websocket)
    /\ received' = [received EXCEPT ![websocket] =
          {CurrentEvent(r) : r \in {q \in Runs : /\ run[q].pc \in {"done", "crashed"}
                                                 /\ run[q].case_id = case_id
                                                 /\ run[q].events # <<>>}}]
    /\ UNCHANGED dbVars
    /\ UNCHANGED <<run, delivery_failed>>
    /\ UNCHANGED offline_exchange

\* websocket_endpoint up to the receive loop: connect, then subscribe_to_case.
\* WebSockets are interchangeable, so they connect in index order.
websocket_endpoint(websocket, case_id) ==
    /\ ws_state[websocket] = "new"
    /\ \A q \in 1..(websocket - 1) : ws_state[q] # "new"
    /\ ws_state' = [ws_state EXCEPT ![websocket] = "open"]
    /\ ws_case' = [ws_case EXCEPT ![websocket] = case_id]
    /\ active_connections' = Append(active_connections, websocket)
    /\ case_subscribers' = subscribe_to_case(case_subscribers, case_id, websocket)
    /\ UNCHANGED dbVars
    /\ UNCHANGED <<run, received, delivery_failed>>
    /\ UNCHANGED offline_exchange

\* the peer closes the connection; the endpoint has not noticed yet
peer_closes(websocket) ==
    /\ ws_state[websocket] = "open"
    /\ ws_state' = [ws_state EXCEPT ![websocket] = "closed"]
    /\ UNCHANGED dbVars
    /\ UNCHANGED <<run, active_connections, case_subscribers, ws_case, received, delivery_failed>>
    /\ UNCHANGED offline_exchange

\* websocket_endpoint: receive_text raises WebSocketDisconnect, manager.disconnect runs
websocket_disconnect(websocket) ==
    /\ ws_state[websocket] = "closed"
    /\ ws_state' = [ws_state EXCEPT ![websocket] = "gone"]
    /\ active_connections' = disconnect(active_connections, websocket)
    /\ UNCHANGED dbVars
    /\ UNCHANGED <<run, case_subscribers, ws_case, received, delivery_failed>>
    /\ UNCHANGED offline_exchange

\* --------------------------------------------------------------------- Next
\* the steps of a run, whoever started it
RunStep ==
    \/ \E r \in Runs : process_case(r)
    \/ \E r \in Runs : analyze_case(r)
    \/ \E r \in Runs : match_service(r)
    \/ \E r \in Runs : book_appointment(r)
    \/ \E r \in Runs : send_confirmation(r)
    \/ \E r \in Runs : track_metrics(r)
    \/ \E r \in Runs : send_case_update(r)

\* The application (app.py): runs are started by submit_case only, observers
\* come and go over /ws/{case_id}.
Next ==
    \/ \E r \in Runs, d \in Descriptions :
          Len(cases) < MaxObservedCases /\ submit_case(r, d)
    \/ RunStep
    \/ \E w \in Sockets, c \in CaseIds : websocket_endpoint(w, c)
    \/ \E w \in Sockets : peer_closes(w)
    \/ \E w \in Sockets : websocket_disconnect(w)

Spec == Init /\ [][Next]_vars

\* the steps of process_case in run r: the load and the five handlers
PipelineStep(r) ==
    \/ process_case(r)
    \/ analyze_case(r)
    \/ match_service(r)
    \/ book_appointment(r)
    \/ send_confirmation(r)
    \/ track_metrics(r)

\* the steps of run r alone
RunStepOf(r) ==
    \/ PipelineStep(r)
    \/ send_case_update(r)

\* Runs started by submit_case, up to MaxObservedCases of them, and by direct
\* calls for the case ids that never get a row; nobody listens.
NextLive ==
    \/ \E r \in Runs, d \in Descriptions :
          Len(cases) < MaxObservedCases /\ submit_case(r, d)
    \/ \E r \in Runs, c \in CaseIds \ (1..MaxObservedCases) : process_case_async(r, c)
    \/ RunStep

\* The scheduling of the event loop: a task that can take its next step is
\* resumed, whatever the other tasks do; no step of a run blocks or waits (no
\* lock, no timeout, no await on another task).  Nothing is assumed about
\* when submissions arrive.
SpecLive == Init /\ [][NextLive]_vars /\ \A r \in Runs : WF_vars(RunStepOf(r))

\* The engine on its own: process_case_async is also called directly, for case
\* ids with no row and for cases that were processed before; nobody listens.
NextEngine ==
    \/ \E r \in Runs, d \in Descriptions : submit_case(r, d)
    \/ \E r \in Runs, c \in CaseIds : process_case_async(r, c)
    \/ RunStep

SpecEngine == Init /\ [][NextEngine]_vars

\* The engine over several days: the day can end between any two steps.
NextDays ==
    \/ NextEngine
    \/ midnight

SpecDays == Init /\ [][NextDays]_vars

\* no run is between its start and its end
NoRunInProgress == \A r \in Runs : run[r].pc \in {"idle", "done", "crashed"}

\* The engine with faults: runs started one after the other, by submissions
\* and by direct calls, and any query or commit of a run may raise.
NextFaults ==
    \/ \E r \in Runs, d \in Descriptions : NoRunInProgress /\ submit_case(r, d)
    \/ \E r \in Runs, c \in CaseIds : NoRunInProgress /\ process_case_async(r, c)
    \/ RunStep
    \/ \E r \in Runs : process_case_raises(r)
    \/ \E r \in Runs : handler_raises(r)
    \/ \E r \in Runs : analyze_case_raises(r)
    \/ \E r \in Runs : match_service_raises(r)
    \/ \E r \in Runs : book_appointment_raises(r)
    \/ \E r \in Runs : send_confirmation_raises(r)

SpecFaults == (Init \/ InitUsed) /\ [][NextFaults]_vars

\* One submission with any description of ProbeTexts or of the demo sample
\* cases, taken through the pipeline: the triage and booking rules applied to
\* every such text.
NextTriage ==
    \/ \E r \in Runs, d \in ProbeTexts \cup SampleDescriptions :
          cases = <<>> /\ submit_case(r, d)
    \/ RunStep

SpecTriage == Init /\ [][NextTriage]_vars

\* One offline request, with any description of OfflineTexts or of the online
\* submissions, at any moment of the processing of one online submission.
NextOffline ==
    \/ \E d \in OfflineTexts \cup Descriptions : process_case_offline(d)
    \/ \E r \in Runs, d \in Descriptions : Len(cases) = StoredCases(cases) /\ submit_case(r, d)
    \/ RunStep

SpecOffline == (Init \/ InitUsed) /\ [][NextOffline]_vars

\* Submissions of every urgency tier, one after the other, and services added
\* by the administrator at any time.
NextBooking ==
    \/ \E r \in Runs, d \in TierTexts : NoRunInProgress /\ submit_case(r, d)
    \/ \E service_data \in ServiceData : create_service(service_data)
    \/ RunStep

SpecBooking == (Init \/ InitUsed) /\ [][NextBooking]_vars

\* python demo_data_setup.py: create_demo_data from the tables as its inserts
\* leave them, the first DemoProcessed sample cases processed one after the
\* other, then the metrics rows; then test_agent_workflow.  The day can end
\* between any two steps of the script.
NextDemo ==
    \/ demo_process_case
    \/ PipelineStep(DemoRun)
    \/ demo_system_metrics
    \/ test_agent_workflow
    \/ PipelineStep(TestRun)
    \/ midnight

SpecDemo == InitDemo /\ [][NextDemo]_vars

\* demo_data_setup.py has run to its end
DemoScriptOver == run[TestRun].pc = "returned"

\* the script ran within one day, after its first second: the only rows that
\* do not pass the filter are the ones create_demo_data dates a day before
DemoSameDay ==
    \A i \in 1..Len(system_metrics) :
        ~DatedToday(system_metrics[i]) =>
            system_metrics[i] = DemoMetrics(system_metrics[i].service_id)[2]

\* what the script leaves is what InitUsed starts on: always for the services,
\* cases, appointments and updates, and for system_metrics when the script ran
\* within one day
DemoLeavesUsedTables ==
    DemoScriptOver =>
        /\ services = DemoServices
        /\ cases = UsedCases
        /\ appointments = UsedAppointments
        /\ DemoSameDay => system_metrics = UsedMetrics
        /\ \A c \in DOMAIN case_updates :
              case_updates[c] = IF c <= Len(UsedCaseColumns) THEN UsedUpdates ELSE <<>>

\* the script ran within one day and is over
DemoLeftUsedTables == DemoScriptOver /\ system_metrics = UsedMetrics

\* The engine of an application started on the tables demo_data_setup.py
\* left: submissions get the ids after the stored cases, direct calls re-run
\* stored cases.
SpecUsed == InitUsed /\ [][NextDays]_vars

TypeOK ==
    /\ \A r \in Runs : run[r].pc \in {"idle", "load", "send", "returned", "done", "crashed"} \cup Nodes
    /\ \A w \in Sockets : ws_state[w] \in {"new", "open", "closed", "gone"}

\* ================================================================== claims
\* the stage order the specification fixes
StageOrder == <<"triage", "guidance", "booking", "followup", "equity">>

IsPrefix(p, q) == Len(p) <= Len(q) /\ \A i \in 1..Len(p) : p[i] = q[i]

HasError(r) == run[r].state.error_message # NoneStr

\* C1: in every run the handlers are entered in the order triage, guidance,
\* booking, followup, equity: the handlers entered so far are a prefix of that
\* order (none twice, none out of turn), and the only handler the graph may
\* enter next is the one after the last that returned.
C1_FixedStageOrder ==
    \A r \in Runs :
        /\ IsPrefix(run[r].started, StageOrder)
        /\ run[r].pc \in Nodes =>
              /\ Len(run[r].started) < Len(StageOrder)
              /\ run[r].pc = StageOrder[Len(run[r].started) + 1]

\* C1 witness: a run entered all five handlers
C1_Witness == \E r \in Runs : run[r].started = StageOrder /\ run[r].pc = "done"

\* C2: once a handler returned with error_message set, the engine runs no
\* further handler of that run.
C2_HaltsOnError ==
    \A r \in Runs : HasError(r) => run[r].pc \notin Nodes

\* C3: in every state of a run, error_message set implies that the status of
\* the case state is failed.
C3_ErrorMeansFailed ==
    \A r \in Runs : HasError(r) => run[r].state.current_status = "failed"

\* a run in which all five handlers ran and none set an error has returned
CleanRun(r) ==
    /\ run[r].started = StageOrder
    /\ ~HasError(r)
    /\ run[r].result # {}

\* no other run was started for the case of run r
OnlyRunOfCase(r) ==
    \A q \in Runs \ {r} : run[q].case_id # run[r].case_id

\* C4 as stated: a run whose five stages all succeed reports, and leaves
\* persisted, the status completed.
C4_EndsCompleted ==
    \A r \in Runs : CleanRun(r) =>
        /\ \A res \in run[r].result : res.final_status = "completed"
        /\ cases[run[r].case_id].status = "completed"

\* C4 amended: a run whose five stages all succeed reports final status
\* scheduled, and scheduled is the persisted status of the case unless another
\* run was started for the same case.
C4_EndsScheduled ==
    \A r \in Runs : CleanRun(r) =>
        /\ \A res \in run[r].result : res.success /\ res.final_status = "scheduled"
        /\ OnlyRunOfCase(r) => cases[run[r].case_id].status = "scheduled"

\* C4 witness: a clean run is over and was the only one of its case
C4_Witness ==
    \E r \in Runs : CleanRun(r) /\ run[r].pc = "done" /\ OnlyRunOfCase(r)

\* C5: a run that is over handed exactly one event to send_case_update, and a
\* run past process_case handed at least one.
C5_OneTerminalEvent ==
    \A r \in Runs :
        /\ run[r].pc \in {"send", "done", "crashed"} => Len(run[r].events) >= 1
        /\ run[r].pc \in {"done", "crashed"} => Len(run[r].events) = 1

\* C6: no exception leaves send_case_update, and every open subscriber that
\* stood after a failing one in the list still got the event being published.
C6_FailureIsContained ==
    \A r \in Runs :
        /\ run[r].escaped = 0
        /\ \A w \in run[r].unreached :
              ws_state[w] = "open" =>
                 [type |-> "case_processed", case_id |-> run[r].case_id, run |-> r]
                     \in received[w]

\* C7: a WebSocket to which a delivery failed is no longer in the subscriber
\* list of its case.
C7_FailedSinkRemoved ==
    \A w \in delivery_failed : ~InSeq(case_subscribers[ws_case[w]], w)

\* C8: a WebSocket for which ConnectionManager.disconnect ran on its
\* disconnect is no longer in the subscriber list of its case.
C8_DisconnectUnsubscribes ==
    \A w \in Sockets :
        ws_state[w] = "gone" => ~InSeq(case_subscribers[ws_case[w]], w)

\* C9: process_case for a case id with no row returns the "Case not found"
\* error at once; from then on the run enters no handler, and no step of the
\* run changes any table.
C9_CaseNotFoundFailsFast ==
    [][\A r \in Runs :
          ( /\ run'[r] # run[r]
            /\ \/ run[r].pc = "load" /\ CaseById(cases, run[r].case_id) = {}
               \/ run[r].result = {[error |-> "Case not found"]} ) =>
             /\ run'[r].result = {[error |-> "Case not found"]}
             /\ run'[r].started = <<>>
             /\ run'[r].pc \in {"send", "done", "crashed"}
             /\ UNCHANGED dbVars]_vars

\* C9 witness: a run for a missing case is over, no handler entered
C9_Witness ==
    \E r \in Runs : /\ run[r].pc = "done"
                    /\ run[r].result = {[error |-> "Case not found"]}
                    /\ run[r].started = <<>>
                    /\ CaseById(cases, run[r].case_id) = {}

\* C10: the outcome of every run that did not complete all five stages has
\* success = false and an error.
C10_FailureIsSignalled ==
    \A r \in Runs : \A res \in run[r].result :
        run[r].started # StageOrder =>
            /\ "success" \in DOMAIN res
            /\ res.success = FALSE
            /\ "error" \in DOMAIN res

\* the outcome of run r says success
Succeeded(r) == \E res \in run[r].result : "success" \in DOMAIN res /\ res.success

\* C11: an outcome with success = true comes only from a run in which all
\* five handlers ran and returned and none set error_message; a run in which
\* a handler set error_message never has a success outcome.
C11_NoPartialSuccess ==
    \A r \in Runs :
        /\ Succeeded(r) =>
              /\ run[r].started = StageOrder
              /\ DictKeys(run[r].state.agent_outputs) = StageOrder
              /\ ~HasError(r)
        /\ (HasError(r) /\ run[r].result # {}) =>
              \A res \in run[r].result : res.success = FALSE

\* C11 witness: a run in which Guidance set the error is over, outcome not success
C11_Witness ==
    \E r \in Runs : /\ HasError(r)
                    /\ run[r].pc = "done"
                    /\ \E res \in run[r].result : res.success = FALSE

\* C12: a fault raised inside a handler does not leave process_case:
\* process_case has returned, and what it returned is success = false with the
\* fault's message and the case id.
C12_FaultsAreCaught ==
    \A r \in Runs :
        (run[r].fault # NoneStr /\ run[r].started # <<>>) =>
            /\ run[r].pc \in {"send", "done"}
            /\ run[r].result =
                  {[success |-> FALSE, error |-> run[r].fault, case_id |-> run[r].case_id]}

\* C12 witness: both a handler's own fault and a fault of its environment
\* were raised and reported, the latter after the handler's first commit
C12_Witness ==
    /\ \E r \in Runs : run[r].fault \in {TypeErrorNone, KeyErrorTriage} /\ run[r].pc = "done"
    /\ \E r \in Runs :
          /\ run[r].fault = UnexpectedFault /\ run[r].pc = "done"
          /\ run[r].started = <<"triage", "guidance", "booking", "followup">>
          /\ \E i \in 1..Len(appointments) :
                /\ appointments[i].case_id = run[r].case_id
                /\ appointments[i].confirmation_sent
          /\ \A i \in 1..Len(case_updates[run[r].case_id]) :
                case_updates[run[r].case_id][i].update_type # "confirmation"

\* C13: a submission answers at once and schedules exactly one run: in the
\* step that inserts the case row one idle run record becomes the run of that
\* case, still before process_case (no handler entered, no result, no event),
\* the response holds case_id, message and status = processing only, and every
\* submitted case has exactly one run; a result exists only once an event was
\* handed to send_case_update.
C13_DetachedRun ==
    [][/\ Len(cases') # Len(cases) =>
             \E r \in Runs :
                /\ run[r].pc = "idle"
                /\ run'[r].pc = "load"
                /\ run'[r].case_id = Len(cases')
                /\ run'[r].started = <<>>
                /\ run'[r].result = {}
                /\ run'[r].events = <<>>
                /\ run'[r].ack = {[case_id |-> Len(cases'),
                                   message |-> "Case submitted successfully",
                                   status |-> "processing"]}
                /\ \A q \in Runs \ {r} : run'[q] = run[q]
       /\ \A c \in 1..Len(cases') :
             Cardinality({q \in Runs : run'[q].case_id = c}) = 1
       /\ \A q \in Runs : run'[q].result # {} => Len(run'[q].events) >= 1]_vars

\* C13 witness: the submission was answered, its run delivered its outcome to
\* a subscriber afterwards
C13_Witness ==
    \E r \in Runs, w \in Sockets :
        /\ run[r].ack # {}
        /\ run[r].pc = "done"
        /\ [type |-> "case_processed", case_id |-> run[r].case_id, run |-> r] \in received[w]

\* Guidance ran in run r and its filtered query returned no service
GuidanceFoundNone(r) ==
    /\ InSeq(run[r].started, "guidance")
    /\ (run[r].pc # "crashed" /\ run[r].fault \notin {UnexpectedFault, KeyErrorTriage})
    /\ DictHas(run[r].state.agent_outputs, "triage")
    /\ SelectRows(services,
                  DictGet(run[r].state.agent_outputs, "triage").service_type,
                  run[r].state.urgency_level \in {"critical", "high"}) = <<>>

\* C14 as stated: a run whose Guidance found no service ends as a failure
\* whose error is the no-service-available message, with status failed, no
\* assigned service on the case and no appointment for the case.
C14_NoServiceHalts ==
    \A r \in Runs :
        (GuidanceFoundNone(r) /\ run[r].pc = "done") =>
            /\ run[r].result =
                  {FailureResult(run[r].case_id,
                       NoServiceMessage(DictGet(run[r].state.agent_outputs, "triage").service_type))}
            /\ run[r].state.current_status = "failed"
            /\ \A c \in CaseById(cases, run[r].case_id) : c.assigned_service_id = NoneId
            /\ \A i \in 1..Len(appointments) : appointments[i].case_id # run[r].case_id

\* runs whose track_metrics has completed with assigned service service_id
TrackedRuns(service_id) ==
    {r \in Runs : /\ DictHas(run[r].state.agent_outputs, "equity")
                  /\ run[r].state.assigned_service_id = service_id}

\* the sum of demand_count over the rows of service service_id
RECURSIVE DemandOf(_, _)
DemandOf(table, service_id) ==
    IF table = <<>> THEN 0
    ELSE (IF Head(table).service_id = service_id THEN Head(table).demand_count ELSE 0)
         + DemandOf(Tail(table), service_id)

\* the system_metrics rows the application started on: none after
\* startup_event on an empty database, else the rows it found
StartedOn == IF StoredCases(cases) = 0 THEN <<>> ELSE UsedMetrics

ContainsAny(description, words) == AnyIn(Lower(description), words)

\* analyze_case has stored its output in the state of run r
Triaged(r) == DictHas(run[r].state.agent_outputs, "triage")

TriageOutput(r) == DictGet(run[r].state.agent_outputs, "triage")

\* C16: the urgency Triage gives a description is critical if it contains a
\* critical keyword whatever else it contains, else high if it contains a high
\* keyword, else medium if it contains a medium keyword, else low (keywords
\* matched as substrings, letter case ignored).
C16_UrgencyFirstMatch ==
    \A r \in Runs :
        Triaged(r) =>
            LET d == run[r].state.case_description
                u == TriageOutput(r).urgency
                crit == ContainsAny(d, CriticalWords)
                high == ContainsAny(d, HighWords)
                med == ContainsAny(d, MediumWords) IN
            /\ crit => u = "critical"
            /\ (~crit /\ high) => u = "high"
            /\ (~crit /\ ~high /\ med) => u = "medium"
            /\ (~crit /\ ~high /\ ~med) => u = "low"
            /\ run[r].state.urgency_level = u

\* C16 witness: a description with a high keyword before a critical keyword
\* was triaged critical
C16_Witness ==
    \E r \in Runs :
        /\ Triaged(r)
        /\ run[r].state.case_description =
              <<"p","a","i","n"," ","s","e","v","e","r","e">>
        /\ TriageOutput(r).urgency = "critical"

\* C17: the service type Triage gives a description is medical if it contains
\* a medical keyword, else emergency if it contains an emergency keyword, else
\* social if it contains a social keyword, else administrative, whatever the
\* urgency of the description is.
C17_ServiceTypeFirstMatch ==
    \A r \in Runs :
        Triaged(r) =>
            LET d == run[r].state.case_description
                t == TriageOutput(r).service_type
                medical == ContainsAny(d, MedicalWords)
                emergency == ContainsAny(d, EmergencyWords)
                social == ContainsAny(d, SocialWords) IN
            /\ medical => t = "medical"
            /\ (~medical /\ emergency) => t = "emergency"
            /\ (~medical /\ ~emergency /\ social) => t = "social"
            /\ (~medical /\ ~emergency /\ ~social) => t = "administrative"

\* C17 witness: a description with an emergency keyword before a medical
\* keyword was classified medical, and its urgency is critical
C17_Witness ==
    \E r \in Runs :
        /\ Triaged(r)
        /\ run[r].state.case_description =
              <<"e","m","e","r","g","e","n","c","y"," ","d","o","c","t","o","r">>
        /\ TriageOutput(r).service_type = "medical"
        /\ TriageOutput(r).urgency = "critical"

\* C18: the duration estimate of a triaged case is 60 for critical, 45 for
\* high, 30 for medium and 15 for low, whatever the description is.
C18_DurationByTier ==
    \A r \in Runs :
        Triaged(r) =>
            LET u == TriageOutput(r).urgency
                minutes == TriageOutput(r).estimated_duration IN
            /\ u \in {"critical", "high", "medium", "low"}
            /\ (u = "critical") => minutes = 60
            /\ (u = "high") => minutes = 45
            /\ (u = "medium") => minutes = 30
            /\ (u = "low") => minutes = 15
            /\ \A c \in CaseById(cases, run[r].case_id) : c.estimated_duration = minutes

\* C18 witness: a short and a long description of the same tier got the same
\* estimate (the two texts are reached in different behaviours; this is the
\* long one)
C18_Witness ==
    \E r \in Runs :
        /\ Triaged(r)
        /\ Len(run[r].state.case_description) > 12
        /\ TriageOutput(r).urgency = "medium"
        /\ TriageOutput(r).estimated_duration = 30

\* hours from the moment of booking to the slot, by urgency tier
SlotOffset(urgency) ==
    CASE urgency = "critical" -> 1
      [] urgency = "high" -> 4
      [] urgency = "medium" -> 24
      [] urgency = "low" -> 72

\* C19: every appointment is scheduled at the moment Booking ran plus 1 hour
\* for a critical case, 4 hours for high, 1 day for medium and 3 days for low,
\* whichever service was assigned and whatever appointments already existed.
C19_SlotByTier ==
    \A i \in 1..Len(appointments) :
        \A c \in CaseById(cases, appointments[i].case_id) :
            /\ c.urgency \in {"critical", "high", "medium", "low"}
            /\ appointments[i].scheduled_time = SlotOffset(c.urgency)

\* C19 witness: a high case and a medium case were booked on the same
\* emergency-flagged service, the second while the first appointment existed
C19_Witness ==
    \E i, j \in 1..Len(appointments) :
        /\ i < j
        /\ appointments[i].case_id # appointments[j].case_id
        /\ appointments[i].service_id = appointments[j].service_id
        /\ \E svc \in ServiceById(services, appointments[j].service_id) : svc.is_emergency
        /\ appointments[i].scheduled_time = 4
        /\ appointments[j].scheduled_time = 24

\* the service match_service selected in run r
SelectedService(r) ==
    IF DictHas(run[r].state.agent_outputs, "guidance")
    THEN ServiceById(services, run[r].state.assigned_service_id)
    ELSE {}

\* C20: whenever Guidance has selected a service, the service has the type
\* Triage produced, and if the urgency is high or critical and some
\* emergency-flagged service of that type exists then the selected service is
\* emergency-flagged.
C20_EmergencyPreferred ==
    \A r \in Runs :
        /\ DictHas(run[r].state.agent_outputs, "guidance") => SelectedService(r) # {}
        /\ \A svc \in SelectedService(r) :
              /\ svc.type = TriageOutput(r).service_type
              /\ (/\ run[r].state.urgency_level \in {"critical", "high"}
                  /\ \E k \in 1..Len(services) :
                        /\ services[k].type = TriageOutput(r).service_type
                        /\ services[k].is_emergency)
                 => svc.is_emergency

\* C20 witness: for a critical case Guidance selected the emergency-flagged
\* service although a service of the same type with a lower id is not flagged
C20_Witness ==
    \E r \in Runs : \E svc \in SelectedService(r) :
        /\ run[r].state.urgency_level = "critical"
        /\ svc.is_emergency
        /\ \E k \in 1..Len(services) :
              /\ services[k].id < svc.id
              /\ services[k].type = svc.type
              /\ ~services[k].is_emergency

\* C21: the offline path answers high if the description contains emergency,
\* urgent, critical or severe and medium otherwise, medical if it contains
\* medical, health or doctor and general otherwise (words matched as
\* substrings, letter case ignored), and the step that answers changes no
\* table, no run and no connection-manager state.
C21_OfflineFallback ==
    [][offline_exchange' # offline_exchange =>
          /\ UNCHANGED <<dbVars, run, wsVars>>
          /\ \A x \in offline_exchange' :
                /\ x.urgency \in {"high", "medium"}
                /\ x.urgency = "high" <=>
                      \/ ContainsAny(x.description, << <<"e","m","e","r","g","e","n","c","y">> >>)
                      \/ ContainsAny(x.description, << <<"u","r","g","e","n","t">> >>)
                      \/ ContainsAny(x.description, << <<"c","r","i","t","i","c","a","l">> >>)
                      \/ ContainsAny(x.description, << <<"s","e","v","e","r","e">> >>)
                /\ x.recommended_service \in {"medical", "general"}
                /\ x.recommended_service = "medical" <=>
                      \/ ContainsAny(x.description, << <<"m","e","d","i","c","a","l">> >>)
                      \/ ContainsAny(x.description, << <<"h","e","a","l","t","h">> >>)
                      \/ ContainsAny(x.description, << <<"d","o","c","t","o","r">> >>)]_vars

\* C21 witness: an offline request with a high keyword of the online rules
\* only was answered medium and general while an online run was at booking
C21_Witness ==
    /\ \E x \in offline_exchange :
          /\ x.description = <<"p","a","i","n">>
          /\ x.urgency = "medium"
          /\ x.recommended_service = "general"
    /\ \E r \in Runs : run[r].pc = "booking"

\* the appointment rows of the case of run r
AppointmentsOf(r) ==
    {i \in 1..Len(appointments) : appointments[i].case_id = run[r].case_id}

\* C22: once Booking has succeeded in a run, the case has one appointment,
\* whose duration is Triage's estimate and whose offset is the one of Triage's
\* urgency tier; and a description containing severe and pain, with an
\* emergency-flagged medical service in the catalog, gives urgency critical,
\* service type medical, duration 60 and offset one hour.
C22_ScenarioA ==
    \A r \in Runs :
        DictHas(run[r].state.agent_outputs, "booking") =>
            /\ Cardinality(AppointmentsOf(r)) = 1
            /\ \A i \in AppointmentsOf(r) :
                  /\ appointments[i].duration_minutes = TriageOutput(r).estimated_duration
                  /\ appointments[i].scheduled_time = SlotOffset(TriageOutput(r).urgency)
                  /\ appointments[i].service_id = run[r].state.assigned_service_id
            /\ (/\ ContainsAny(run[r].state.case_description, << <<"s","e","v","e","r","e">> >>)
                /\ ContainsAny(run[r].state.case_description, << <<"p","a","i","n">> >>))
               => /\ TriageOutput(r).urgency = "critical"
                  /\ TriageOutput(r).service_type = "medical"
                  /\ \A i \in AppointmentsOf(r) :
                        /\ appointments[i].duration_minutes = 60
                        /\ appointments[i].scheduled_time = 1
                        /\ \E svc \in ServiceById(services, appointments[i].service_id) :
                              svc.type = "medical" /\ svc.is_emergency

\* C22 witness: the run of a severe-pain case ended successfully with its
\* appointment of 60 minutes in one hour
C22_Witness ==
    \E r \in Runs :
        /\ run[r].state.case_description = <<"s","e","v","e","r","e"," ","p","a","i","n">>
        /\ run[r].pc = "done"
        /\ Succeeded(r)
        /\ \E i \in AppointmentsOf(r) :
              appointments[i].duration_minutes = 60 /\ appointments[i].scheduled_time = 1

\* C23 as stated: after Guidance failed in a run, the case has no appointment
\* row, its status is not scheduled, it has no booking or confirmation update
\* record, the run added nothing to the demand metrics, and the error recorded
\* by Guidance is still the run's error.
C23_NoLaterSideEffect ==
    \A r \in Runs :
        GuidanceFoundNone(r) =>
            /\ AppointmentsOf(r) = {}
            /\ \A c \in CaseById(cases, run[r].case_id) : c.status # "scheduled"
            /\ run[r].state.current_status # "scheduled"
            /\ \A k \in 1..Len(case_updates[run[r].case_id]) :
                  case_updates[run[r].case_id][k].update_type \notin {"booking", "confirmation"}
            /\ ~DictHas(run[r].state.agent_outputs, "equity")
            /\ run[r].state.error_message =
                  NoServiceMessage(TriageOutput(r).service_type)

\* position of a status in the order the specification fixes
StatusRank(status) ==
    CASE status = "submitted" -> 1
      [] status = "triaged" -> 2
      [] status = "assigned" -> 3
      [] status = "scheduled" -> 4
      [] status = "completed" -> 5
      [] OTHER -> 0

\* C24 as stated: in every step of a run, a second run on an already processed
\* case included, the status of the case state either stays, moves forward in
\* the order submitted, triaged, assigned, scheduled, completed, or becomes
\* failed.
C24_StatusNeverRegresses ==
    [][\A r \in Runs :
          (run[r].pc \in Nodes /\ run'[r].state.current_status # run[r].state.current_status) =>
              \/ run'[r].state.current_status = "failed"
              \/ StatusRank(run'[r].state.current_status) >
                    StatusRank(run[r].state.current_status)]_vars

\* C25 as stated: the keys of agent_outputs are the stages that have run so
\* far, in the order they ran.
C25_OneEntryPerStageRun ==
    \A r \in Runs : DictKeys(run[r].state.agent_outputs) = run[r].started

\* C25 amended: the keys of agent_outputs are always a prefix of the stage
\* order; a step of a handler either appends one entry, under the name of that
\* handler, exactly when the handler completes without raising and without
\* setting the error, or leaves the mapping as it is; the entries already
\* there are never removed or replaced.
C25_OneEntryPerCompletedStage ==
    [][\A r \in Runs :
          (run[r].pc \in Nodes /\ run'[r] # run[r]) =>
              LET old == run[r].state.agent_outputs
                  new == run'[r].state.agent_outputs
                  completed == /\ run'[r].fault = NoneStr
                               /\ run'[r].state.error_message = run[r].state.error_message IN
              /\ IsPrefix(DictKeys(new), StageOrder)
              /\ IsPrefix(old, new)
              /\ completed => DictKeys(new) = Append(DictKeys(old), run[r].pc)
              /\ ~completed => new = old]_vars

\* C25 witness: four handlers have run, one of them completed: one entry
C25_Witness ==
    \E r \in Runs :
        /\ run[r].started = <<"triage", "guidance", "booking", "followup">>
        /\ DictKeys(run[r].state.agent_outputs) = <<"triage">>
        /\ run[r].pc = "done"

\* C26: in every state of a run, assigned_service_id is set only if Guidance
\* has run and completed in that run, and appointment_details is set only if
\* Booking has run and completed in that run, with assigned_service_id set.
C26_SetOnlyAfterSuccess ==
    \A r \in Runs :
        /\ run[r].state.assigned_service_id # NoneId =>
              /\ InSeq(run[r].started, "guidance")
              /\ DictHas(run[r].state.agent_outputs, "guidance")
        /\ run[r].state.appointment_details # {} =>
              /\ InSeq(run[r].started, "booking")
              /\ DictHas(run[r].state.agent_outputs, "booking")
              /\ run[r].state.assigned_service_id # NoneId

\* C26 witness: one run has its appointment and its service, and a run on a
\* case that a former run had assigned is about to enter Guidance with no
\* service in its state
C26_Witness ==
    /\ \E r \in Runs :
          /\ run[r].state.appointment_details # {}
          /\ run[r].state.assigned_service_id # NoneId
    /\ \E q \in Runs :
          /\ run[q].pc = "guidance"
          /\ run[q].state.assigned_service_id = NoneId
          /\ \E c \in CaseById(cases, run[q].case_id) : c.assigned_service_id # NoneId

\* C27 as stated: a run whose five handlers all succeeded, the only run of its
\* case, has appended five update records, one by each handler, in stage order.
C27_FiveUpdateRecords ==
    \A r \in Runs :
        (CleanRun(r) /\ OnlyRunOfCase(r)) =>
            /\ Len(case_updates[run[r].case_id]) = 5
            /\ [k \in 1..Len(case_updates[run[r].case_id]) |->
                    case_updates[run[r].case_id][k].agent_type]
                  = <<"triage", "guidance", "booking", "follow_up", "equity">>

\* Booking ran in run r and its assigned service id resolved to no service
BookingFoundNone(r) ==
    /\ InSeq(run[r].started, "booking")
    /\ DictHas(run[r].state.agent_outputs, "triage")
    /\ ServiceById(services, run[r].state.assigned_service_id) = {}
    /\ run[r].fault \notin {UnexpectedFault, KeyErrorTriage}

\* C29 as stated: when Booking finds no service for the assigned id it sets
\* the service-not-found error, adds no appointment row and no booking update
\* record, leaves the status short of scheduled, and the run ends as a failure
\* that reports that error.
C29_ServiceNotFound ==
    \A r \in Runs :
        BookingFoundNone(r) =>
            /\ run[r].state.error_message = "Service not found"
            /\ AppointmentsOf(r) = {}
            /\ \A k \in 1..Len(case_updates[run[r].case_id]) :
                  case_updates[run[r].case_id][k].update_type # "booking"
            /\ run[r].state.current_status # "scheduled"
            /\ run[r].pc = "done" =>
                  run[r].result = {FailureResult(run[r].case_id, "Service not found")}

\* C30 as stated: whatever the interleaving of websocket_endpoint, disconnect
\* and the turns of send_case_update, the subscriber list of each case holds,
\* once each, exactly the WebSockets that subscribed to the case and were not
\* removed since (by their disconnect or after a failed delivery), and a
\* publish that is over has delivered an event of its run to every open
\* WebSocket that stood in the list behind the point it reached.
C30_RegistryNotCorrupted ==
    /\ \A c \in CaseIds :
          /\ \A i, j \in 1..Len(case_subscribers[c]) :
                case_subscribers[c][i] = case_subscribers[c][j] => i = j
          /\ {case_subscribers[c][i] : i \in 1..Len(case_subscribers[c])} =
                {w \in Sockets : /\ ws_case[w] = c
                                 /\ ws_state[w] \in {"open", "closed"}
                                 /\ w \notin delivery_failed}
    /\ \A r \in Runs :
          run[r].pc \in {"done", "crashed"} =>
              \A w \in run[r].unreached :
                  ws_state[w] = "open" => \E e \in received[w] : e.run = r

\* C31: a run that has been started eventually has its outcome, with an event
\* handed to send_case_update, and eventually is over.
C31_RunTerminates ==
    \A r \in Runs :
        (run[r].pc = "load") ~>
            (/\ run[r].result # {}
             /\ Len(run[r].events) >= 1
             /\ run[r].pc \in {"done", "crashed"})

\* C31 witness: a run is over, all five handlers entered, while another run
\* that was started before it has not taken a step yet
C31_Witness ==
    \E r, q \in Runs :
        /\ q < r
        /\ run[r].pc = "done"
        /\ run[r].started = StageOrder
        /\ run[q].pc = "load"

\* C32: a step of Followup changes nothing in the appointments table except
\* that it may set a confirmation flag to true; when it completes, the case has
\* an appointment whose flag is true; when the case already had one, the step
\* leaves the whole table as it was; and no step of any handler sets a flag
\* back to false.
C32_ConfirmationIdempotent ==
    [][/\ \A i \in 1..Len(appointments) :
             /\ i <= Len(appointments')
             /\ appointments[i].confirmation_sent => appointments'[i].confirmation_sent
       /\ \A r \in Runs :
             (run[r].pc = "followup" /\ run'[r] # run[r]) =>
                 /\ Len(appointments') = Len(appointments)
                 /\ \A i \in 1..Len(appointments) :
                       \/ appointments'[i] = appointments[i]
                       \/ appointments'[i] =
                             [appointments[i] EXCEPT !.confirmation_sent = TRUE]
                 /\ DictHas(run'[r].state.agent_outputs, "followup") =>
                       \E i \in 1..Len(appointments') :
                           /\ appointments'[i].case_id = run[r].case_id
                           /\ appointments'[i].confirmation_sent
                 /\ (\E i \in 1..Len(appointments) :
                        /\ appointments[i].case_id = run[r].case_id
                        /\ appointments[i].confirmation_sent)
                    => appointments' = appointments]_vars

\* C32 witness: Followup has completed twice on the same case, in two runs
C32_Witness ==
    \E r, q \in Runs :
        /\ r # q
        /\ run[r].case_id = run[q].case_id
        /\ DictHas(run[r].state.agent_outputs, "followup")
        /\ DictHas(run[q].state.agent_outputs, "followup")
        /\ \E i \in AppointmentsOf(r) : appointments[i].confirmation_sent

\* C33: a description that contains "checkup" without the hyphen and no
\* critical keyword, no high keyword and neither "appointment",
\* "consultation" nor "check-up" is triaged low; the description of the annual
\* health checkup sample case is triaged low with service type medical.
C33_HyphenationSensitive ==
    \A r \in Runs :
        Triaged(r) =>
            LET d == run[r].state.case_description
                out == TriageOutput(r) IN
            /\ (/\ ContainsAny(d, << <<"c","h","e","c","k","u","p">> >>)
                /\ ~ContainsAny(d, CriticalWords)
                /\ ~ContainsAny(d, HighWords)
                /\ ~ContainsAny(d, << <<"a","p","p","o","i","n","t","m","e","n","t">>,
                                      <<"c","o","n","s","u","l","t","a","t","i","o","n">>,
                                      <<"c","h","e","c","k","-","u","p">> >>))
               => out.urgency = "low"
            /\ d = sample_cases[3].description
               => (out.urgency = "low" /\ out.service_type = "medical")

\* C33 witness: the annual health checkup description has been triaged
C33_Witness ==
    \E r \in Runs :
        /\ Triaged(r)
        /\ run[r].state.case_description = sample_cases[3].description
        /\ ContainsAny(sample_cases[3].description, << <<"c","h","e","c","k","u","p">> >>)
        /\ TriageOutput(r).urgency = "low"

\* C34: for every sample case of the demo data, Triage of its description
\* gives the urgency and the service type recorded with the case.
C34_SampleExpectations ==
    \A r \in Runs :
        Triaged(r) =>
            \A i \in 1..Len(sample_cases) :
                run[r].state.case_description = sample_cases[i].description =>
                    /\ TriageOutput(r).urgency = sample_cases[i].expected_urgency
                    /\ TriageOutput(r).service_type = sample_cases[i].expected_service

\* C35 as stated: when a stage returns without error, the persisted status and
\* assigned service of the case equal current_status and assigned_service_id
\* of the state the stage returns; when a stage returns with the error set, or
\* raises, the cases table is what it was before the stage.
C35_LockStep ==
    [][\A r \in Runs :
          (run[r].pc \in Nodes /\ run'[r] # run[r]) =>
              LET st == run'[r].state IN
              IF st.error_message = NoneStr
              THEN \A row \in CaseById(cases', run[r].case_id) :
                      /\ row.status = st.current_status
                      /\ row.assigned_service_id = st.assigned_service_id
              ELSE cases' = cases]_vars

\* C36: for every description answered offline, an offline urgency of high
\* implies that the online Triage rules give critical, and an offline service
\* type of medical implies that they give medical; a run that has triaged the
\* same description recorded that urgency and that service type.
C36_OfflineCoarser ==
    \A x \in offline_exchange :
        /\ x.urgency = "high" =>
              /\ _determine_urgency(x.description) = "critical"
              /\ \A r \in Runs :
                    (Triaged(r) /\ run[r].state.case_description = x.description)
                        => TriageOutput(r).urgency = "critical"
        /\ x.recommended_service = "medical" =>
              /\ _determine_service_type(x.description) = "medical"
              /\ \A r \in Runs :
                    (Triaged(r) /\ run[r].state.case_description = x.description)
                        => TriageOutput(r).service_type = "medical"

\* C36 witness: a description answered high offline has been triaged critical
\* by a run
C36_Witness ==
    \E x \in offline_exchange, r \in Runs :
        /\ x.urgency = "high"
        /\ Triaged(r)
        /\ run[r].state.case_description = x.description
        /\ TriageOutput(r).urgency = "critical"

\* C37: a WebSocket gets an event only in a step of the sending loop of a run
\* that is publishing it, and only if at that moment it is open and listed
\* under the case id of the event; so nothing is delivered once the run has
\* left the loop (a later subscriber never gets the event) and nothing is
\* delivered by a run whose case has no subscriber.
C37_NoReplay ==
    [][\A w \in Sockets :
          \A ev \in received'[w] \ received[w] :
              /\ run[ev.run].pc = "send"
              /\ ev = CurrentEvent(ev.run)
              /\ InSeq(case_subscribers[ev.case_id], w)
              /\ ws_state[w] = "open"]_vars

\* C37 witness: a run has published its event and is over, and a WebSocket
\* that is open and subscribed to its case has received nothing
C37_Witness ==
    \E r \in Runs, w \in Sockets :
        /\ run[r].pc = "done"
        /\ run[r].events # <<>>
        /\ ws_state[w] = "open"
        /\ ws_case[w] = run[r].case_id
        /\ InSeq(case_subscribers[run[r].case_id], w)
        /\ received[w] = {}

\* C38: every event a WebSocket has received is an event of the case id it
\* subscribed to.
C38_PerCaseIsolation ==
    \A w \in Sockets :
        \A ev \in received[w] : ev.case_id = ws_case[w]

\* C38 witness: a WebSocket has received the event of a run while a WebSocket
\* that connected before it and subscribed to another case id, still open,
\* has received nothing
C38_Witness ==
    \E r \in Runs, w1, w2 \in Sockets :
        /\ w2 < w1
        /\ run[r].pc = "done"
        /\ \E ev \in received[w1] : ev.run = r
        /\ ws_case[w2] \notin {0, run[r].case_id}
        /\ ws_state[w2] = "open"
        /\ received[w2] = {}

\* the services table holds services of the type run r was triaged to, and
\* none of them is emergency-flagged
OnlyUnflagged(r) ==
    /\ DictHas(run[r].state.agent_outputs, "triage")
    /\ LET service_type == DictGet(run[r].state.agent_outputs, "triage").service_type IN
       /\ \E i \in 1..Len(services) : services[i].type = service_type
       /\ \A i \in 1..Len(services) :
             services[i].type = service_type => ~services[i].is_emergency

\* C39: when Guidance handles a case of urgency high or critical and the
\* services of the required type are all without the emergency flag, it
\* returns with the no-service error of that type, leaves assigned_service_id
\* unset in the state and in the case row, records no guidance output and no
\* assignment update: no service without the flag is taken instead.
C39_NoFallback ==
    [][\A r \in Runs :
          (/\ run[r].pc = "guidance"
           /\ run'[r] # run[r]
           /\ run[r].state.urgency_level \in {"high", "critical"}
           /\ OnlyUnflagged(r)) =>
              LET st == run'[r].state
                  service_type == DictGet(run[r].state.agent_outputs, "triage").service_type IN
              /\ st.error_message = NoServiceMessage(service_type)
              /\ st.assigned_service_id = NoneId
              /\ ~DictHas(st.agent_outputs, "guidance")
              /\ cases' = cases
              /\ cases[run[r].case_id].assigned_service_id = NoneId
              /\ case_updates' = case_updates]_vars

\* C39 witness: Guidance has returned the no-service error for a critical
\* social case while the table holds a social service without the flag
C39_Witness ==
    \E r \in Runs :
        /\ run[r].pc = "booking"
        /\ run[r].state.urgency_level = "critical"
        /\ OnlyUnflagged(r)
        /\ run[r].state.error_message = "No available services for social"
        /\ run[r].state.assigned_service_id = NoneId

====
